---- MODULE Spec2Model ----
(***************************************************************************)
(* Confess: admission (insert_confession), feed (get_confess_feed,         *)
(* fetchFeed) and sweep, modelled from the SQL migrations and src/api.ts.  *)
(*                                                                         *)
(* Time is in whole seconds.  A text is a sequence of one-character        *)
(* strings.  A uuid is a natural number, compared as uuids are compared.   *)
(***************************************************************************)
EXTENDS Integers, Sequences, FiniteSets, TLC

VARIABLES
  now,          \* the server clock, seconds
  ticks,        \* how many times the clock has advanced (bounded)
  confessions,  \* table confessions: a set of rows
  calls,        \* insert_confession calls in flight, by connection
  lastReturn,   \* what the most recently finished insert_confession returned
  feedReturn,   \* the most recent get_confess_feed call and what it returned
  fetchReturn,  \* the most recent fetchFeed call and its FeedResult
  pager,        \* a reader following cursors from the first page on
  repeatReturn, \* what the reader's repeat of its last feed call returned
  selectReturn, \* what the most recent direct read of the table returned
  state,        \* session manager: the in-memory SessionState
  lastBackgroundAt,  \* localStorage item lethe:lastBackgroundAt, ms
  storageAvailable,  \* whether localStorage works in this browser
  clientNow,    \* Date.now() on the client, ms
  clientTicks,  \* how many times the client clock has advanced (bounded)
  sessionsStarted,   \* how many session ids have been generated
  adInserted,   \* App: state adInserted
  adMarkedRef,  \* App: adMarkedRef.current
  event,        \* the most recent client event and what it observed
  place_cache,  \* the rows of table place_cache
  placeCalls,   \* per connection: the resolve_place call in progress
  placeWrites,  \* cache inserts sent and not yet executed
  placeReturn,  \* what the most recent resolvePlace call came back with
  placeCallsMade, \* how many resolve_place calls were started (bounded)
  tab,          \* App: the active tab
  deviceLocation,  \* App: device GPS location
  geoStatus,    \* App: state of the geolocation permission
  geoPending,   \* getCurrentPosition requests not yet answered
  somewherePlace,  \* App: the place resolved for the Somewhere tab
  cachedPlaces, \* the in-memory cache behind getCachedPlace
  resolving,    \* the resolvePlace call handleSomewhereListen waits for
  worldFeed,    \* App: FeedState of the World tab
  placeFeed,    \* App: FeedState shared by Near me and Somewhere
  nearMeRadius, \* App: radius remembered for near-me pagination
  loads,        \* the loader calls: where each stands and what it captured
  loadsStarted, \* how many loader calls were started (bounded)
  lastFetch,    \* the fetchFeed call that returned in the latest step, if one did
  lastSubmit,   \* what handleSubmit sent and waits for
  submits       \* how many confessions the App has submitted (bounded)

serverVars == <<now, ticks, confessions, calls, lastReturn,
                feedReturn, fetchReturn, pager, repeatReturn, selectReturn>>
sessionVars == <<state, lastBackgroundAt, storageAvailable, clientNow,
                 clientTicks, sessionsStarted, adInserted, adMarkedRef, event>>
placeVars == <<place_cache, placeCalls, placeWrites, placeReturn, placeCallsMade>>
appVars == <<tab, deviceLocation, geoStatus, geoPending, somewherePlace,
             cachedPlaces, resolving, worldFeed, placeFeed, nearMeRadius,
             loads, loadsStarted, lastFetch, lastSubmit, submits>>
clientVars == <<sessionVars, placeVars, appVars>>
vars == <<serverVars, clientVars>>

\* ---------------------------------------------------------------- bounds
MaxRows == 2
MaxTicks == 3

\* ------------------------------------------------------- nulls and values
\* SQL NULL / JS null for a number; never a legal timestamp or coordinate here
NULL == -1
\* SQL NULL for a text argument (no character is the string "NULL")
NullText == <<"NULL">>
\* auth.uid() of a caller without a session
NullUser == "null"
\* a null PageCursor / null cursor arguments
NoCursor == [created_at |-> NULL, id |-> NULL]

Min(S) == CHOOSE x \in S : \A y \in S : x <= y
Max(S) == CHOOSE x \in S : \A y \in S : x >= y

Users == {"A", "B"}
Conns == {1, 2}
Ids == 1..MaxRows

\* gen_random_uuid(): an id no row has (ids carry no order information that
\* any step of the admission path reads)
FreshId(store) == Min(Ids \ {r.id : r \in store})

Rep(c, n) == [i \in 1..n |-> c]


\* ------------------------------------------------------ character classes
UpperSeq == <<"A","B","C","D","E","F","G","H","I","J","K","L","M",
              "N","O","P","Q","R","S","T","U","V","W","X","Y","Z">>
LowerSeq == <<"a","b","c","d","e","f","g","h","i","j","k","l","m",
              "n","o","p","q","r","s","t","u","v","w","x","y","z">>
UpperCh == {UpperSeq[i] : i \in 1..26}
LowerCh == {LowerSeq[i] : i \in 1..26}
DigitCh == {"0","1","2","3","4","5","6","7","8","9"}
\* regex \s
SpaceCh == {" ", "\t", "\n"}
\* regex word character (\m and \M are defined by it)
WordCh == UpperCh \cup LowerCh \cup DigitCh \cup {"_"}

\* ~* compares case-insensitively
ToLower(c) ==
  IF c \in UpperCh THEN LowerSeq[CHOOSE i \in 1..26 : UpperSeq[i] = c] ELSE c

\* btrim(text): strips the space character only, from both ends
Btrim(t) ==
  IF t = NullText THEN NullText
  ELSE LET keep == {i \in 1..Len(t) : t[i] # " "} IN
       IF keep = {} THEN <<>> ELSE SubSeq(t, Min(keep), Max(keep))

\* the literal pat occurs in t at position i, ignoring case
MatchAt(t, i, pat) ==
  /\ i + Len(pat) - 1 <= Len(t)
  /\ \A k \in 1..Len(pat) : ToLower(t[i + k - 1]) = pat[k]

\* index of the last character of the longest run of class C starting at i
\* (i - 1 when t[i] is not in C)
RECURSIVE RunEnd(_, _, _)
RunEnd(t, i, C) ==
  IF i <= Len(t) /\ t[i] \in C THEN RunEnd(t, i + 1, C) ELSE i - 1

\* \m at i: a word starts at i.  \M after j: a word ends at j.
WordStartsAt(t, i) == t[i] \in WordCh /\ (i = 1 \/ t[i - 1] \notin WordCh)
WordEndsAt(t, j) == t[j] \in WordCh /\ (j = Len(t) \/ t[j + 1] \notin WordCh)

\* position('@' IN v_text) > 0
HasAt(t) == \E i \in 1..Len(t) : t[i] = "@"

\* v_text ~* 'https?://' OR v_text ~* '\mwww\.'
HasUrl(t) ==
  \E i \in 1..Len(t) :
    \/ MatchAt(t, i, <<"h","t","t","p",":","/","/">>)
    \/ MatchAt(t, i, <<"h","t","t","p","s",":","/","/">>)
    \/ (MatchAt(t, i, <<"w","w","w",".">>) /\ WordStartsAt(t, i))

Tlds == { <<"c","o","m">>, <<"n","e","t">>, <<"o","r","g">>, <<"n","o">>,
          <<"i","o">>, <<"c","o">>, <<"a","p","p">> }

\* v_text ~* '\.(com|net|org|no|io|co|app)\M'
HasTld(t) ==
  \E i \in 1..Len(t) : \E tld \in Tlds :
    /\ MatchAt(t, i, <<".">> \o tld)
    /\ WordEndsAt(t, i + Len(tld))

\* length(regexp_replace(v_text, '[^0-9]', '', 'g')) >= 8
MinPhoneDigits == 8
HasPhoneDigits(t) ==
  Cardinality({i \in 1..Len(t) : t[i] \in DigitCh}) >= MinPhoneDigits

\* v_text ~ '\+\s*[0-9]'
HasDialPrefix(t) ==
  \E i \in 1..Len(t) :
    /\ t[i] = "+"
    /\ LET j == RunEnd(t, i + 1, SpaceCh) + 1 IN
       j <= Len(t) /\ t[j] \in DigitCh

\* v_text ~ '\m[A-Z][a-z]+\s+[A-Z][a-z]+\M'
HasFullName(t) ==
  \E i \in 1..Len(t) :
    /\ t[i] \in UpperCh
    /\ WordStartsAt(t, i)
    /\ LET a == RunEnd(t, i + 1, LowerCh)
           b == RunEnd(t, a + 1, SpaceCh)
           e == RunEnd(t, b + 2, LowerCh)
       IN  /\ a >= i + 1
           /\ b >= a + 1
           /\ b + 1 <= Len(t)
           /\ t[b + 1] \in UpperCh
           /\ e >= b + 2
           /\ WordEndsAt(t, e)

\* (variant: the @ check is missing)
ContentBlockedNoAt(t) ==
  \/ HasUrl(t)
  \/ HasTld(t)
  \/ HasPhoneDigits(t)
  \/ HasDialPrefix(t)
  \/ HasFullName(t)

ContentBlocked(t) ==
  \/ HasAt(t)
  \/ HasUrl(t)
  \/ HasTld(t)
  \/ HasPhoneDigits(t)
  \/ HasDialPrefix(t)
  \/ HasFullName(t)

\* ------------------------------------------------------- insert_confession
COOLDOWN_S == 15
EXPIRY_S == 86400
MAX_TEXT == 120

\* (variant: the rate-limit message loses its tag)
ErrMsgUntagged(tag) ==
  CASE tag = "EMPTY_TEXT" -> <<"EMPTY_TEXT", ":", "Confession", "text">>
    [] tag = "TEXT_TOO_LONG" -> <<"TEXT_TOO_LONG", ":", "Confession", "must">>
    [] tag = "CONTENT_BLOCKED" -> <<"CONTENT_BLOCKED", ":", "Please", "keep">>
    [] tag = "RATE_LIMIT" -> <<"Please", "wait", "before", "posting", "again">>

\* RAISE EXCEPTION messages, as words; the first word carries the tag
ErrMsg(tag) ==
  CASE tag = "EMPTY_TEXT" ->
         <<"EMPTY_TEXT", ":", "Confession", "text", "cannot", "be", "empty">>
    [] tag = "TEXT_TOO_LONG" ->
         <<"TEXT_TOO_LONG", ":", "Confession", "must", "be", "120",
           "characters", "or", "less">>
    [] tag = "CONTENT_BLOCKED" ->
         <<"CONTENT_BLOCKED", ":", "Please", "keep", "it", "abstract">>
    [] tag = "RATE_LIMIT" ->
         <<"RATE_LIMIT", ":", "Please", "wait", "before", "posting", "again">>

\* (variant: the lookup has no WHERE c.user_id = v_user_id)
LastPostAnyone(store, uid) ==
  IF store = {} THEN NULL ELSE Max({r.created_at : r \in store})
\* SELECT c.created_at ... WHERE c.user_id = v_user_id
\* ORDER BY c.created_at DESC LIMIT 1  (NULL when the user has no row)
LastPost(store, uid) ==
  LET mine == {r.created_at : r \in {q \in store : q.user_id = uid}} IN
  IF mine = {} THEN NULL ELSE Max(mine)

\* (variant: >= in place of >)
InCooldownInclusive(v_last_post, tnow) ==
  v_last_post # NULL /\ v_last_post >= tnow - COOLDOWN_S

\* v_last_post IS NOT NULL AND v_last_post > now() - interval '15 seconds'
InCooldown(v_last_post, tnow) ==
  v_last_post # NULL /\ v_last_post > tnow - COOLDOWN_S

\* (variant: the length check rejects 120 characters too)
TextChecksOffByOne(p_text) ==
  LET v_text == Btrim(p_text) IN
  IF v_text = NullText \/ v_text = <<>> THEN "EMPTY_TEXT"
  ELSE IF Len(v_text) >= MAX_TEXT THEN "TEXT_TOO_LONG"
  ELSE IF ContentBlocked(v_text) THEN "CONTENT_BLOCKED"
  ELSE "PASS"

\* the text checks of insert_confession (btrim through the content filter),
\* in the order of the code: the tag of the exception raised, or "PASS"
TextChecks(p_text) ==
  LET v_text == Btrim(p_text) IN
  IF v_text = NullText \/ v_text = <<>> THEN "EMPTY_TEXT"
  ELSE IF Len(v_text) > MAX_TEXT THEN "TEXT_TOO_LONG"
  ELSE IF ContentBlocked(v_text) THEN "CONTENT_BLOCKED"
  ELSE "PASS"

\* the rate-limit block, reached only when the text checks pass
RateLimitCheck(v_user_id, v_last_post, tnow) ==
  IF v_user_id # NullUser /\ InCooldown(v_last_post, tnow) THEN "RATE_LIMIT"
  ELSE "PASS"

\* (variant: the rate limit is checked before the text)
InsertConfessionChecksRateFirst(textTag, v_user_id, v_last_post, tnow) ==
  IF RateLimitCheck(v_user_id, v_last_post, tnow) # "PASS" THEN "RATE_LIMIT"
  ELSE textTag

\* insert_confession up to the INSERT: the first exception raised, or "PASS"
InsertConfessionChecks(textTag, v_user_id, v_last_post, tnow) ==
  IF textTag # "PASS" THEN textTag
  ELSE RateLimitCheck(v_user_id, v_last_post, tnow)

\* (variant: a confession stays visible for 48 hours)
NewRowLongExpiry(id, v_text, p_lat, p_lng, v_user_id, tnow) ==
  [id |-> id, text |-> v_text, created_at |-> tnow,
   expires_at |-> tnow + 2 * EXPIRY_S, lat |-> p_lat, lng |-> p_lng,
   is_hidden |-> FALSE, user_id |-> v_user_id]

\* (variant: the expiry interval is one hour)
NewRowShortExpiry(id, v_text, p_lat, p_lng, v_user_id, tnow) ==
  [id |-> id, text |-> v_text, created_at |-> tnow,
   expires_at |-> tnow + 3600, lat |-> p_lat, lng |-> p_lng,
   is_hidden |-> FALSE, user_id |-> v_user_id]

\* the row the INSERT statement writes; created_at is the column default
\* now(), the start time of the calling transaction
NewRow(id, v_text, p_lat, p_lng, v_user_id, tnow) ==
  [id |-> id, text |-> v_text, created_at |-> tnow,
   expires_at |-> tnow + EXPIRY_S, lat |-> p_lat, lng |-> p_lng,
   is_hidden |-> FALSE, user_id |-> v_user_id]

\* RETURN QUERY SELECT c.id, c.text, c.created_at, c.expires_at, c.lat, c.lng
Returned(r) ==
  [id |-> r.id, text |-> r.text, created_at |-> r.created_at,
   expires_at |-> r.expires_at, lat |-> r.lat, lng |-> r.lng]

\* msg.includes(tag)
Includes(message, tag) == \E i \in 1..Len(message) : message[i] = tag

\* insertConfession (client): the error field of its result
InsertConfessionClient(ret) ==
  IF ret.kind = "error"
  THEN IF Includes(ret.message, "EMPTY_TEXT") THEN "EMPTY_TEXT"
       ELSE IF Includes(ret.message, "TEXT_TOO_LONG") THEN "TEXT_TOO_LONG"
       ELSE IF Includes(ret.message, "CONTENT_BLOCKED") THEN "CONTENT_BLOCKED"
       ELSE IF Includes(ret.message, "RATE_LIMIT") THEN "RATE_LIMIT"
       ELSE "ERROR"
  ELSE IF ret.rows = {} THEN "ERROR" ELSE "OK"

IdleCall == [pc |-> "idle"]
NoReturn == [kind |-> "none"]
NoFeed == [kind |-> "none"]
NoFetch == [kind |-> "none"]
IdlePager == [pc |-> "idle"]
NoRepeat == [kind |-> "none"]
NoSelect == [kind |-> "none"]

\* --------------------------------------------------------------- inputs
\* the texts clients send
Valid120 == <<" ">> \o Rep("a", 120) \o <<" ">>
SubmitTexts ==
  { NullText, <<" ", " ">>, <<"\t">>, Valid120,
    Rep("a", 121),
    Rep("a", 119) \o <<"@">>,
    Rep("a", 120) \o <<"@">>,
    <<"H","T","T","P",":","/","/","x">>,
    <<"x",".","c","o","m">>,
    <<"1","2"," ","3","4","-","5","6","(","7","8",")">>,
    <<"+"," ","4","7">>,
    <<"J","o","h","n"," ","S","m","i","t","h">> }

CoordVals == {NULL, 0}

\* the requests clients send: the caller (auth.uid()), the text, the
\* coordinates.  One caller sends every text, and every combination of
\* present and absent coordinates; the others send a valid and a blocked text.
Requests ==
  {[uid |-> "A", text |-> t, lat |-> NULL, lng |-> NULL] : t \in SubmitTexts}
  \cup {[uid |-> u, text |-> t, lat |-> NULL, lng |-> NULL] :
          u \in {"B", NullUser}, t \in {Valid120, Rep("a", 119) \o <<"@">>}}
  \cup {[uid |-> "A", text |-> Valid120, lat |-> la, lng |-> lo] :
          la \in CoordVals, lo \in CoordVals}

\* the text checks and btrim of each text a client sends, computed once
TextTagOf == [t \in SubmitTexts |-> TextChecks(t)]
TrimmedOf == [t \in SubmitTexts |-> Btrim(t)]

\* the instants at which the model looks at the system: the clock steps
\* through 0, 14, 15, 86415, 86429, ... (below and exactly at the cooldown,
\* exactly at the expiry of the row created at 15 and past that of the others)
ClockSteps == <<14, 1, EXPIRY_S>>
ClockStep(k) == ClockSteps[(k % Len(ClockSteps)) + 1]

\* ------------------------------------------------------ place resolution
\* bound: resolve_place calls started
MaxPlaceCalls == 3

\* NaN, as parseFloat gives it for a string that starts with no number
NaN == -2

\* String.prototype.trim(): strips white space from both ends
JsTrim(t) ==
  LET keep == {i \in 1..Len(t) : t[i] \notin SpaceCh} IN
  IF keep = {} THEN <<>> ELSE SubSeq(t, Min(keep), Max(keep))
toLowerCase(t) == [i \in 1..Len(t) |-> ToLower(t[i])]
normalizeQuery(q) == toLowerCase(JsTrim(q))

\* parseFloat of a string of decimal digits followed by anything: the number
\* its leading digits spell, NaN when there are none
DigitSeq == <<"0","1","2","3","4","5","6","7","8","9">>
DigitVal(ch) == (CHOOSE i \in 1..10 : DigitSeq[i] = ch) - 1
RECURSIVE DigitsValue(_, _)
DigitsValue(t, n) ==
  IF n = 0 THEN 0 ELSE 10 * DigitsValue(t, n - 1) + DigitVal(t[n])
parseFloat(t) ==
  LET bad == {i \in 1..Len(t) : t[i] \notin DigitCh}
      n == IF bad = {} THEN Len(t) ELSE Min(bad) - 1
  IN IF n = 0 THEN NaN ELSE DigitsValue(t, n)

\* display_name.split(',')[0].trim()
FirstSegment(t) ==
  LET commas == {i \in 1..Len(t) : t[i] = ","}
  IN JsTrim(IF commas = {} THEN t ELSE SubSeq(t, 1, Min(commas) - 1))

\* the responses of the edge function (jsonResponse bodies with their status)
NoText == <<>>
OkResponse(lat, lng, name, source) ==
  [status |-> 200, ok |-> "true", reason |-> "", lat |-> lat, lng |-> lng,
   name |-> name, source |-> source, error |-> ""]
NotFoundResponse ==
  [status |-> 200, ok |-> "false", reason |-> "NOT_FOUND", lat |-> NULL,
   lng |-> NULL, name |-> NoText, source |-> "", error |-> ""]
ErrorResponse(status, msg) ==
  [status |-> status, ok |-> "", reason |-> "", lat |-> NULL, lng |-> NULL,
   name |-> NoText, source |-> "", error |-> msg]

\* input validation of resolve_place: the 400 message, "" when q is accepted
MIN_QUERY == 2
MAX_QUERY == 80
ValidateQuery(q) ==
  IF q = NullText \/ q = <<>> THEN "Missing query parameter q"
  ELSE IF Len(JsTrim(q)) < MIN_QUERY THEN "Query too short (min 2 characters)"
  ELSE IF Len(JsTrim(q)) > MAX_QUERY THEN "Query too long (max 80 characters)"
  ELSE ""

\* what the geocoder sent: the fetch threw, the status was not 2xx, the body
\* was not JSON, or the body was this JSON value (an array of results, or
\* something that is no array)
NoAnswer == [kind |-> "none", data |-> <<>>]
ProviderSucceeded(ans) ==
  /\ ans.kind = "array"
  /\ Len(ans.data) > 0
  /\ ans.data[1].display_name # NullText
  /\ parseFloat(ans.data[1].lat) # NaN
  /\ parseFloat(ans.data[1].lon) # NaN

\* (variant: any body that is not a non-empty array counts as not found,
\* bodies that are not JSON included)
ProviderResponseLenient(ans) ==
  IF ans.kind = "fetchThrows" THEN ErrorResponse(502, "Geocoding provider error")
  ELSE IF ans.kind = "notOk" THEN ErrorResponse(502, "Geocoding provider error")
  ELSE IF ans.kind \in {"notJson", "notArray"} \/ Len(ans.data) = 0
    THEN NotFoundResponse
  ELSE IF ans.data[1].display_name = NullText
    THEN ErrorResponse(500, "Internal server error")
  ELSE IF parseFloat(ans.data[1].lat) = NaN \/ parseFloat(ans.data[1].lon) = NaN
    THEN ErrorResponse(502, "Geocoding provider error")
  ELSE OkResponse(parseFloat(ans.data[1].lat), parseFloat(ans.data[1].lon),
                  FirstSegment(ans.data[1].display_name), "nominatim")
\* the response of resolve_place after a cache miss, from the geocoder's
\* answer (a result without display_name makes split throw: the outer catch)
ProviderResponse(ans) ==
  IF ans.kind = "fetchThrows" THEN ErrorResponse(502, "Geocoding provider error")
  ELSE IF ans.kind = "notOk" THEN ErrorResponse(502, "Geocoding provider error")
  ELSE IF ans.kind = "notJson" THEN ErrorResponse(502, "Geocoding provider error")
  ELSE IF ans.kind = "notArray" \/ Len(ans.data) = 0 THEN NotFoundResponse
  ELSE IF ans.data[1].display_name = NullText
    THEN ErrorResponse(500, "Internal server error")
  ELSE IF parseFloat(ans.data[1].lat) = NaN \/ parseFloat(ans.data[1].lon) = NaN
    THEN ErrorResponse(502, "Geocoding provider error")
  ELSE OkResponse(parseFloat(ans.data[1].lat), parseFloat(ans.data[1].lon),
                  FirstSegment(ans.data[1].display_name), "nominatim")

\* the results of the client's resolvePlace
PlaceOk(lat, lng, name) ==
  [ok |-> TRUE, reason |-> "", lat |-> lat, lng |-> lng, name |-> name,
   message |-> ""]
PlaceNotFound ==
  [ok |-> FALSE, reason |-> "NOT_FOUND", lat |-> NULL, lng |-> NULL,
   name |-> NoText, message |-> ""]
PlaceError(msg) ==
  [ok |-> FALSE, reason |-> "ERROR", lat |-> NULL, lng |-> NULL,
   name |-> NoText, message |-> msg]

\* is404Error on the error functions.invoke reports for an HTTP status
is404Error(status) == status = 404

\* resolvePlace(query): what it makes of the invocation. net is how the
\* request fared before the function: "ok" (resp is the function's response),
\* "fetchError" (the request could not be sent) or "gateway404" (the gateway
\* answered 404 itself)
resolvePlace(query, net, resp) ==
  IF net = "fetchError"
    THEN PlaceError("Failed to send a request to the Edge Function")
  ELSE IF net = "gateway404" THEN PlaceNotFound
  ELSE IF resp.status < 200 \/ resp.status > 299
    THEN IF is404Error(resp.status) THEN PlaceNotFound
         ELSE PlaceError("Edge Function returned a non-2xx status code")
  ELSE IF resp.ok = "false" /\ resp.reason = "NOT_FOUND" THEN PlaceNotFound
  ELSE IF resp.error # "" THEN PlaceError(resp.error)
  ELSE IF resp.lat = NULL \/ resp.lng = NULL THEN PlaceNotFound
  ELSE PlaceOk(resp.lat, resp.lng, IF resp.name = NoText THEN query ELSE resp.name)

IdlePlaceCall == [pc |-> "idle"]
NoPlaceReturn == [kind |-> "none"]
PlaceIdle ==
  /\ place_cache = {}
  /\ placeCalls = [c \in Conns |-> IdlePlaceCall]
  /\ placeWrites = {}
  /\ placeReturn = NoPlaceReturn
  /\ placeCallsMade = 0

\* -------------------------------------------------------------------- App
\* bounds of the App model: loader calls started after the mount, loader
\* calls in flight at one time, confessions submitted and geolocation
\* requests outstanding at one time
MaxLoads == 3
MaxInFlight == 2
MaxSubmits == 1
MaxGeoPending == 2

NEAR_ME_RADII == <<100, 250, 500, 1000, 2000>>
MIN_RESULTS == 10
MAX_ATTEMPTS == 3
\* loadPlace(place, reset, radiusM = 10000)
PLACE_RADIUS_M == 10000

\* a null location
NoPoint == [lat |-> NULL, lng |-> NULL]
emptyFeed ==
  [confessions |-> <<>>, cursor |-> NoCursor, hasMore |-> FALSE,
   loading |-> FALSE, hasFetched |-> FALSE]
IdleLoad == [pc |-> "idle"]
NoResolve == [pc |-> "idle"]
NoFetchSeen == [kind |-> "none"]
NoSubmit == [kind |-> "none"]

\* the App as mounted, before any interaction
AppIdle ==
  /\ tab = "world"
  /\ deviceLocation = NoPoint
  /\ geoStatus = "idle"
  /\ geoPending = 0
  /\ somewherePlace = NoPoint
  /\ cachedPlaces = {}
  /\ resolving = NoResolve
  /\ worldFeed = emptyFeed
  /\ placeFeed = emptyFeed
  /\ nearMeRadius = NEAR_ME_RADII[Len(NEAR_ME_RADII)]
  /\ loads = [i \in 1..MaxInFlight |-> IdleLoad]
  /\ loadsStarted = 0
  /\ lastFetch = NoFetchSeen
  /\ lastSubmit = NoSubmit
  /\ submits = 0

\* ------------------------------------------------------- session manager
\* bounds of the session model: session ids generated, page fetches counted
\* and client clock steps taken
MaxSessions == 3
MaxFetches == 6
MaxClientTicks == 3

BACKGROUND_THRESHOLD_MS == 10 * 60 * 1000
AD_TRIGGER_THRESHOLD == 4

\* the module-level state before any function ran; '' is session id 0
InitialSessionState ==
  [sessionId |-> 0, pageFetchCount |-> 0, adArmed |-> FALSE, adShown |-> FALSE]

\* generateSessionId(): 122 random bits, modelled as an id never used before
generateSessionId == sessionsStarted + 1

\* localStorage access; every call is wrapped in try/catch, so an unavailable
\* storage reads as "no timestamp" and silently ignores writes
getLastBackgroundAt == IF storageAvailable THEN lastBackgroundAt ELSE NULL
setLastBackgroundAt(t) == IF storageAvailable THEN t ELSE lastBackgroundAt
clearLastBackgroundAt == IF storageAvailable THEN NULL ELSE lastBackgroundAt

\* (variant: a new session keeps the old ad bookkeeping)
startNewSessionKeepsAds(id) == [state EXCEPT !.sessionId = id]
\* startNewSession(): the in-memory state it leaves (it also clears the
\* stored timestamp, see the actions)
startNewSession(id) ==
  [sessionId |-> id, pageFetchCount |-> 0, adArmed |-> FALSE, adShown |-> FALSE]

\* (variant: the threshold itself does not yet count as expired)
SessionExpiredStrict(stored, t) ==
  stored # NULL /\ t - stored > BACKGROUND_THRESHOLD_MS
\* onAppForeground(): whether the stored timestamp starts a new session
SessionExpired(stored, t) ==
  stored # NULL /\ t - stored >= BACKGROUND_THRESHOLD_MS

\* (variant: the ad is armed one fetch late)
recordPageFetchLate(st) ==
  IF st.adShown THEN st
  ELSE LET n == st.pageFetchCount + 1
       IN [st EXCEPT !.pageFetchCount = n,
                     !.adArmed = st.adArmed \/ n > AD_TRIGGER_THRESHOLD]
\* recordPageFetch()
recordPageFetch(st) ==
  IF st.adShown THEN st
  ELSE LET n == st.pageFetchCount + 1
       IN [st EXCEPT !.pageFetchCount = n,
                     !.adArmed = st.adArmed \/ n >= AD_TRIGGER_THRESHOLD]

\* (variant: the ad stays armed after it was shown)
markAdShownStillArmed(st) == [st EXCEPT !.adShown = TRUE]
\* markAdShown()
markAdShown(st) == [st EXCEPT !.adShown = TRUE, !.adArmed = FALSE]

isAdArmed(st) == st.adArmed /\ ~st.adShown
hasAdShown(st) == st.adShown

\* the client before the App mounts, with nothing persisted
NoEvent == [type |-> "none", reset |-> FALSE, rows |-> 0, elapsed |-> NULL]
ClientIdle ==
  /\ state = InitialSessionState
  /\ lastBackgroundAt = NULL
  /\ storageAvailable = TRUE
  /\ clientNow = 0
  /\ clientTicks = 0
  /\ sessionsStarted = 0
  /\ adInserted = FALSE
  /\ adMarkedRef = FALSE
  /\ event = NoEvent
  /\ PlaceIdle
  /\ AppIdle

\* ----------------------------------------------------------------- Init
Init ==
  /\ now = 0
  /\ ticks = 0
  /\ confessions = {}
  /\ calls = [c \in Conns |-> IdleCall]
  /\ lastReturn = NoReturn
  /\ feedReturn = NoFeed
  /\ fetchReturn = NoFetch
  /\ pager = IdlePager
  /\ repeatReturn = NoRepeat
  /\ selectReturn = NoSelect
  /\ ClientIdle

\* --------------------------------------------------------------- actions
InFlight == {c \in Conns : calls[c].pc = "insert"}

\* A response is handed to its caller before the next step is taken; no
\* step reads it.
Delivered == lastReturn = NoReturn

\* insert_confession, from BEGIN through the rate-limit SELECT: the
\* transaction starts (now() is fixed), the text is validated, the caller's
\* last post is read from the committed rows.  An exception ends the call.
CallInsertConfession(c, req) ==
  /\ Delivered
  /\ calls[c].pc = "idle"
  /\ LET v_last_post == IF req.uid # NullUser
                        THEN LastPost(confessions, req.uid) ELSE NULL
         tag == InsertConfessionChecks(TextTagOf[req.text], req.uid,
                                       v_last_post, now)
     IN  IF tag = "PASS"
         THEN /\ Cardinality(confessions) + Cardinality(InFlight) < MaxRows
              /\ calls' = [calls EXCEPT ![c] =
                    [pc |-> "insert", p_text |-> req.text,
                     v_text |-> TrimmedOf[req.text], p_lat |-> req.lat,
                     p_lng |-> req.lng, v_user_id |-> req.uid,
                     v_last_post |-> v_last_post, txnow |-> now]]
              /\ UNCHANGED lastReturn
         ELSE /\ lastReturn' =
                    [kind |-> "error", message |-> ErrMsg(tag),
                     p_text |-> req.text, p_lat |-> req.lat,
                     p_lng |-> req.lng, v_user_id |-> req.uid,
                     v_last_post |-> v_last_post, txnow |-> now, rows |-> {}]
              /\ UNCHANGED calls
  /\ UNCHANGED <<now, ticks, confessions, feedReturn, fetchReturn, pager, repeatReturn, selectReturn>>
  /\ UNCHANGED clientVars

\* insert_confession, the INSERT, the RETURN QUERY and the commit
FinishInsertConfession(c) ==
  /\ Delivered
  /\ calls[c].pc = "insert"
  /\ LET id == FreshId(confessions)
           k == calls[c]
           row == NewRow(id, k.v_text, k.p_lat, k.p_lng, k.v_user_id, k.txnow)
       IN  /\ confessions' = confessions \cup {row}
           /\ lastReturn' =
                [kind |-> "ok", message |-> <<>>,
                 p_text |-> k.p_text, p_lat |-> k.p_lat, p_lng |-> k.p_lng,
                 v_user_id |-> k.v_user_id, v_last_post |-> k.v_last_post,
                 txnow |-> k.txnow, rows |-> {Returned(row)}]
  /\ calls' = [calls EXCEPT ![c] = IdleCall]
  /\ UNCHANGED <<now, ticks, feedReturn, fetchReturn, pager, repeatReturn, selectReturn>>
  /\ UNCHANGED clientVars

\* the caller takes the response
ReceiveReturn ==
  /\ ~Delivered
  /\ lastReturn' = NoReturn
  /\ UNCHANGED <<now, ticks, confessions, calls, feedReturn, fetchReturn, pager, repeatReturn, selectReturn>>
  /\ UNCHANGED clientVars

\* the clock advances to the next instant; a call of insert_confession is
\* one short transaction and does not span two instants
Tick ==
  /\ Delivered
  /\ ticks < MaxTicks
  /\ InFlight = {}
  /\ now' = now + ClockStep(ticks)
  /\ ticks' = ticks + 1
  /\ UNCHANGED <<confessions, calls, lastReturn, feedReturn, fetchReturn, pager, repeatReturn, selectReturn>>
  /\ UNCHANGED clientVars

\* The clock steps of ClockSteps end after MaxTicks; then the clock moves on
\* past the expiry window of every row there is.  Nothing is submitted
\* after that step.
TickPast ==
  /\ Delivered
  /\ ticks = MaxTicks
  /\ InFlight = {}
  /\ now' = now + EXPIRY_S + 1
  /\ ticks' = ticks + 1
  /\ UNCHANGED <<confessions, calls, lastReturn, feedReturn, fetchReturn,
                 pager, repeatReturn, selectReturn>>
  /\ UNCHANGED clientVars

\* (variant: the job deletes rows older than 48 hours)
SweepCronTwoDays ==
  /\ Delivered
  /\ confessions' = {r \in confessions : ~(r.created_at < now - 2 * EXPIRY_S)}
  /\ confessions' # confessions
  /\ UNCHANGED <<now, ticks, calls, lastReturn, feedReturn, fetchReturn,
                 pager, repeatReturn, selectReturn>>
  /\ UNCHANGED clientVars

\* cron job: DELETE FROM confessions WHERE created_at < now() - interval '24 hours'
SweepCron ==
  /\ Delivered
  /\ confessions' = {r \in confessions : ~(r.created_at < now - EXPIRY_S)}
  /\ confessions' # confessions
  /\ UNCHANGED <<now, ticks, calls, lastReturn, feedReturn, fetchReturn, pager, repeatReturn, selectReturn>>
  /\ UNCHANGED clientVars

\* edge function cleanup_confessions:
\* .delete().lt('created_at', new Date(Date.now() - 24 * 60 * 60 * 1000))
SweepFunction ==
  /\ Delivered
  /\ confessions' = {r \in confessions : ~(r.created_at < now - 24 * 60 * 60)}
  /\ confessions' # confessions
  /\ UNCHANGED <<now, ticks, calls, lastReturn, feedReturn, fetchReturn, pager, repeatReturn, selectReturn>>
  /\ UNCHANGED clientVars

Next ==
  \/ \E c \in Conns, req \in Requests : CallInsertConfession(c, req)
  \/ \E c \in Conns : FinishInsertConfession(c)
  \/ ReceiveReturn
  \/ Tick
  \/ SweepCron
  \/ SweepFunction

Spec == Init /\ [][Next]_vars

\* ---------------------------------------------------------------- liveness
\* The run in which time advances and the hourly cron job keeps running:
\* a response is taken (weak fairness); a started call, the clock and the
\* cron job do not wait for other callers (strong fairness).
CallBeforeTickPast(c, req) ==
  /\ ticks <= MaxTicks
  /\ CallInsertConfession(c, req)

NextLive ==
  \/ \E c \in Conns, req \in Requests : CallBeforeTickPast(c, req)
  \/ \E c \in Conns : FinishInsertConfession(c)
  \/ ReceiveReturn
  \/ Tick
  \/ TickPast
  \/ SweepCron
  \/ SweepFunction

SpecLive ==
  /\ Init
  /\ [][NextLive]_vars
  /\ \A c \in Conns : SF_vars(FinishInsertConfession(c))
  /\ WF_vars(ReceiveReturn)
  /\ SF_vars(Tick)
  /\ SF_vars(TickPast)
  /\ SF_vars(SweepCron)

\* ==================================================================== feed
\* get_confess_feed (migration 011) and fetchFeed (src/api.ts)

\* the largest generated table
FeedRows == 72

DEFAULT_LIMIT == 30
\* radiusM = 1000, fetchFeed's default
DEFAULT_RADIUS_M == 1000

\* COALESCE(x, d)
Coalesce(x, d) == IF x = NULL THEN d ELSE x

\* (variant: the page size has no upper clamp)
v_limitUncapped(p_limit) == Max({10, Coalesce(p_limit, 30)})

\* v_limit := GREATEST(10, LEAST(50, COALESCE(p_limit, 30)))
v_limit(p_limit) == Max({10, Min({50, Coalesce(p_limit, 30)})})

\* v_radius := GREATEST(100, LEAST(50000, COALESCE(p_radius_m, 10000)))
v_radius(p_radius_m) == Max({100, Min({50000, Coalesce(p_radius_m, 10000)})})

\* A latitude is a whole number of 1/10000 degree.  Every longitude of the
\* model is 0, so cos(radians(c.lng) - radians(p_lng)) = 1 and the haversine
\* distance is the meridian arc 6371000 * radians(|p_lat - c.lat|).
LatPerDegree == 10000
\* 6371000 * pi / 180 metres per degree of latitude (111194.93)
MetersPerDegree == 111195
Abs(x) == IF x < 0 THEN -x ELSE x

\* distance in metres, times LatPerDegree
Haversine(p_lat, p_lng, lat, lng) == Abs(p_lat - lat) * MetersPerDegree

\* (variant: hidden rows are not filtered)
VisibleUnmoderated(c, tnow) == c.expires_at > tnow

\* (variant: expired rows are not filtered)
VisibleUntilSwept(c, tnow) == c.is_hidden = FALSE

\* c.expires_at > now() AND COALESCE(c.is_hidden, false) = false
Visible(c, tnow) == c.expires_at > tnow /\ c.is_hidden = FALSE

\* (variant: a row needs a latitude only)
InRadiusLatOnly(c, p_lat, p_lng, radius) ==
  /\ c.lat # NULL
  /\ Haversine(p_lat, p_lng, c.lat, c.lng) <= radius * LatPerDegree

\* near mode's location filter
InRadius(c, p_lat, p_lng, radius) ==
  /\ c.lat # NULL
  /\ c.lng # NULL
  /\ Haversine(p_lat, p_lng, c.lat, c.lng) <= radius * LatPerDegree

\* (variant: rows created at the cursor's instant are not told apart by id)
AfterCursorNoTieBreak(c, p_cursor_created_at, p_cursor_id) ==
  \/ p_cursor_created_at = NULL
  \/ c.created_at <= p_cursor_created_at

\* keyset pagination; a comparison with a NULL cursor id is not true
AfterCursor(c, p_cursor_created_at, p_cursor_id) ==
  \/ p_cursor_created_at = NULL
  \/ c.created_at < p_cursor_created_at
  \/ /\ c.created_at = p_cursor_created_at
     /\ p_cursor_id # NULL
     /\ c.id < p_cursor_id

\* a sorts after b under ORDER BY created_at DESC, id DESC
KeyLess(a, b) ==
  \/ a.created_at < b.created_at
  \/ a.created_at = b.created_at /\ a.id < b.id

\* each row with the number of rows that sort before it
Ranked(S) == {<<Cardinality({q \in S : KeyLess(r, q)}), r>> : r \in S}

\* ORDER BY c.created_at DESC, c.id DESC LIMIT lim, and the selected columns
OrderLimit(S, lim) ==
  LET ranked == Ranked(S)
      n == Min({Cardinality(S), lim})
  IN  [k \in 1..n |-> Returned((CHOOSE p \in ranked : p[1] = k - 1)[2])]


\* get_confess_feed, one STABLE call: a is its argument list
get_confess_feed(store, tnow, a) ==
  IF a.p_mode = "near"
  THEN IF a.p_lat = NULL \/ a.p_lng = NULL
       THEN [kind |-> "error", args |-> a, txnow |-> tnow, rows |-> <<>>,
             message |-> <<"lat", "and", "lng", "are", "required",
                           "for", "near", "mode">>]
       ELSE [kind |-> "rows", args |-> a, txnow |-> tnow, message |-> <<>>,
             rows |-> OrderLimit(
               {c \in store :
                  /\ Visible(c, tnow)
                  /\ InRadius(c, a.p_lat, a.p_lng, v_radius(a.p_radius_m))
                  /\ AfterCursor(c, a.p_cursor_created_at, a.p_cursor_id)},
               v_limit(a.p_limit))]
  ELSE [kind |-> "rows", args |-> a, txnow |-> tnow, message |-> <<>>,
        rows |-> OrderLimit(
          {c \in store :
             /\ Visible(c, tnow)
             /\ AfterCursor(c, a.p_cursor_created_at, a.p_cursor_id)},
          v_limit(a.p_limit))]

\* items.slice(0, limit), limit >= 0
Slice(items, limit) == SubSeq(items, 1, Min({limit, Len(items)}))

\* { confessions: [], nextCursor: null, hasMore: false }
EmptyResult(params) ==
  [kind |-> "result", params |-> params, confessions |-> <<>>,
   nextCursor |-> NoCursor, hasMore |-> FALSE]

\* the rpcParams fetchFeed builds
RpcParams(params) ==
  [p_mode |-> params.mode,
   p_limit |-> Min({Coalesce(params.limit, DEFAULT_LIMIT), 50}) + 1,
   p_cursor_created_at |-> params.cursor.created_at,
   p_cursor_id |-> params.cursor.id,
   p_lat |-> params.lat,
   p_lng |-> params.lng,
   p_radius_m |-> Coalesce(params.radiusM, DEFAULT_RADIUS_M)]

\* fetchFeed returns before the RPC: no client, or near mode without a point
FetchSkipsRpc(params) ==
  \/ ~params.supabase
  \/ params.mode = "near" /\ (params.lat = NULL \/ params.lng = NULL)

\* fetchFeed, given what the RPC returned
FeedResult(params, rpc) ==
  IF rpc.kind = "error" THEN EmptyResult(params)
  ELSE LET limit == Coalesce(params.limit, DEFAULT_LIMIT)
           items == rpc.rows
           hasMore == Len(items) > limit
           page == IF hasMore THEN Slice(items, limit) ELSE items
       IN  [kind |-> "result", params |-> params, confessions |-> page,
            nextCursor |-> IF Len(page) > 0
                           THEN [created_at |-> page[Len(page)].created_at,
                                 id |-> page[Len(page)].id]
                           ELSE NoCursor,
            hasMore |-> hasMore]

\* ------------------------------------------------------------ feed inputs
\* now() in the feed runs
FeedNow == 100000
\* ids are spread over 1..IdModulus in an order unrelated to created_at
IdModulus == 79
\* latitudes 0 m, 89 m, 111 m, 8.9 km, 11.1 km and 48.9 km from the equator
LatChoices == <<0, 8, 10, 800, 0, 1000, 4400>>
\* 51.1 km from the equator
FarLat == 4600

\* The i-th row of a generated table, g rows to one created_at.  Rows are
\* such as insert_confession writes for callers without a session (every
\* 48th from 1 on for user A, at least 16 s after A's last), except
\* that every 16th from 5 on has expired (the first of them at this very
\* instant), every 16th from 11 on has been hidden by a moderator, every
\* 16th has no coordinates and every 32nd from 24 on has a latitude only.
GenRow(i, g) ==
  LET created == IF i % 16 = 5 THEN FeedNow - EXPIRY_S - (i \div 16)
                 ELSE FeedNow - (i \div g)
      lat == IF i % 16 = 0 THEN NULL
             ELSE IF i % 32 = 8 THEN FarLat
             ELSE IF i % 32 = 24 THEN 0
             ELSE LatChoices[i % 8]
      lng == IF i % 16 = 0 \/ i % 32 = 24 THEN NULL ELSE 0
      uid == IF i % 48 = 1 THEN "A" ELSE NullUser
  IN  [NewRow(((i * 37) % IdModulus) + 1, <<"a">>, lat, lng, uid, created)
         EXCEPT !.is_hidden = (i % 16 = 11)]

FeedSizes == {0, 7, 23, FeedRows}
TieGroups == {1, 3}

FeedCursors ==
  { NoCursor,
    [created_at |-> FeedNow - 2, id |-> 40],
    [created_at |-> FeedNow - 2, id |-> NULL],
    [created_at |-> NULL, id |-> 40] }

FeedArgs(mode, limit, cur, lat, lng, radius) ==
  [p_mode |-> mode, p_limit |-> limit,
   p_cursor_created_at |-> cur.created_at, p_cursor_id |-> cur.id,
   p_lat |-> lat, p_lng |-> lng, p_radius_m |-> radius]

\* argument lists of direct get_confess_feed calls
FeedRequests ==
  {FeedArgs("world", l, c, NULL, NULL, NULL) :
     l \in {NULL, 0, 5, 10, 30, 50, 51, 200}, c \in FeedCursors}
  \cup {FeedArgs("all", NULL, NoCursor, NULL, NULL, NULL)}
  \cup {FeedArgs("near", l, c, q[1], q[2], r) :
          l \in {NULL, 200},
          c \in {NoCursor, [created_at |-> FeedNow - 2, id |-> 40]},
          q \in CoordVals \X CoordVals,
          r \in {NULL, 50, 100, 1000, 50000, 100000}}

FetchParams(mode, limit, cur, lat, lng, radiusM, configured) ==
  [mode |-> mode, limit |-> limit, cursor |-> cur, lat |-> lat, lng |-> lng,
   radiusM |-> radiusM, supabase |-> configured]

\* FetchFeedParams (an omitted field is NULL), and whether the client exists
FetchRequests ==
  {FetchParams("world", l, c, NULL, NULL, NULL, TRUE) :
     l \in {NULL, 0, 5, 10, 30, 49, 50, 200},
     c \in {NoCursor, [created_at |-> FeedNow - 2, id |-> 40]}}
  \cup {FetchParams("world", NULL, NoCursor, NULL, NULL, NULL, FALSE)}
  \cup {FetchParams("near", l, NoCursor, q[1], q[2], r, TRUE) :
          l \in {NULL, 50}, q \in CoordVals \X CoordVals,
          r \in {NULL, 50, 100000}}

\* what a reader pages through: the RPC directly, or fetchFeed
PagerRequests ==
  {[via |-> "rpc", params |-> a] :
     a \in {FeedArgs("world", l, NoCursor, NULL, NULL, NULL) :
              l \in {NULL, 10, 50, 200}}
           \cup {FeedArgs("near", NULL, NoCursor, 0, 0, NULL)}}
  \cup
  {[via |-> "fetchFeed", params |-> p] :
     p \in {FetchParams("world", l, NoCursor, NULL, NULL, NULL, TRUE) :
              l \in {NULL, 0, 10, 50}}
           \cup {FetchParams("near", NULL, NoCursor, 0, 0, r, TRUE) :
                   r \in {NULL, 100000}}}

\* ------------------------------------------------------------ feed actions
InitFeed ==
  /\ now = FeedNow
  /\ ticks = 0
  /\ \E n \in FeedSizes, g \in TieGroups :
       confessions = {GenRow(i, g) : i \in 1..n}
  /\ calls = [c \in Conns |-> IdleCall]
  /\ lastReturn = NoReturn
  /\ feedReturn = NoFeed
  /\ fetchReturn = NoFetch
  /\ pager = IdlePager
  /\ repeatReturn = NoRepeat
  /\ selectReturn = NoSelect
  /\ ClientIdle

\* the reader has taken the last feed response
FeedDelivered ==
  feedReturn = NoFeed /\ fetchReturn = NoFetch /\ selectReturn = NoSelect

\* (variant: the call also deletes the rows it finds expired)
CallGetConfessFeedPurging(a) ==
  /\ FeedDelivered
  /\ pager.pc = "idle"
  /\ feedReturn' = get_confess_feed(confessions, now, a)
  /\ confessions' = {c \in confessions : c.expires_at > now}
  /\ UNCHANGED <<now, ticks, calls, lastReturn, fetchReturn, pager, repeatReturn, selectReturn>>
  /\ UNCHANGED clientVars

\* one supabase.rpc('get_confess_feed', a)
CallGetConfessFeed(a) ==
  /\ FeedDelivered
  /\ pager.pc = "idle"
  /\ feedReturn' = get_confess_feed(confessions, now, a)
  /\ UNCHANGED <<now, ticks, confessions, calls, lastReturn, fetchReturn, pager, repeatReturn, selectReturn>>
  /\ UNCHANGED clientVars

\* one fetchFeed(params)
fetchFeed(params) ==
  /\ FeedDelivered
  /\ pager.pc = "idle"
  /\ IF FetchSkipsRpc(params)
     THEN /\ fetchReturn' = EmptyResult(params)
          /\ UNCHANGED feedReturn
     ELSE /\ feedReturn' = get_confess_feed(confessions, now, RpcParams(params))
          /\ fetchReturn' = FeedResult(params, feedReturn')
  /\ UNCHANGED <<now, ticks, confessions, calls, lastReturn, pager, repeatReturn, selectReturn>>
  /\ UNCHANGED clientVars

\* a reader sets out from the first page
PagerStart(req) ==
  /\ FeedDelivered
  /\ pager.pc = "idle"
  /\ pager' = [pc |-> "paging", via |-> req.via, params |-> req.params,
               cursor |-> NoCursor, seen |-> <<>>]
  /\ UNCHANGED <<now, ticks, confessions, calls, lastReturn,
                 feedReturn, fetchReturn, repeatReturn, selectReturn>>
  /\ UNCHANGED clientVars

IdsOf(rows) == [k \in 1..Len(rows) |-> rows[k].id]

\* the reader asks for the page after its cursor: through the RPC until a
\* page comes back empty, through fetchFeed until hasMore is false
PagerNext ==
  /\ FeedDelivered
  /\ pager.pc = "paging"
  /\ IF pager.via = "rpc"
     THEN /\ feedReturn' = get_confess_feed(confessions, now,
                [pager.params EXCEPT
                   !.p_cursor_created_at = pager.cursor.created_at,
                   !.p_cursor_id = pager.cursor.id])
          /\ UNCHANGED fetchReturn
          /\ LET rows == feedReturn'.rows
             IN  IF Len(rows) = 0
                 THEN pager' = [pager EXCEPT !.pc = "done"]
                 ELSE pager' = [pager EXCEPT
                        !.seen = @ \o IdsOf(rows),
                        !.cursor = [created_at |-> rows[Len(rows)].created_at,
                                    id |-> rows[Len(rows)].id]]
     ELSE /\ feedReturn' = get_confess_feed(confessions, now,
                RpcParams([pager.params EXCEPT !.cursor = pager.cursor]))
          /\ fetchReturn' = FeedResult(
                [pager.params EXCEPT !.cursor = pager.cursor], feedReturn')
          /\ pager' = [pager EXCEPT
                !.seen = @ \o IdsOf(fetchReturn'.confessions),
                !.cursor = fetchReturn'.nextCursor,
                !.pc = IF fetchReturn'.hasMore THEN "paging" ELSE "done"]
  /\ UNCHANGED <<now, ticks, confessions, calls, lastReturn, repeatReturn, selectReturn>>
  /\ UNCHANGED clientVars

\* the reader takes the response; a finished pagination is over
ReceiveFeed ==
  /\ ~FeedDelivered
  /\ feedReturn' = NoFeed
  /\ fetchReturn' = NoFetch
  /\ pager' = IF pager.pc = "done" THEN IdlePager ELSE pager
  /\ repeatReturn' = NoRepeat
  /\ selectReturn' = NoSelect
  /\ UNCHANGED <<now, ticks, confessions, calls, lastReturn>>
  /\ UNCHANGED clientVars

\* policy "Anyone can read confessions" FOR SELECT TO anon USING (true):
\* a client without a session reads the table itself, every column of
\* every row
SelectConfessions ==
  /\ FeedDelivered
  /\ pager.pc = "idle"
  /\ selectReturn' = [kind |-> "rows", rows |-> confessions]
  /\ UNCHANGED <<now, ticks, confessions, calls, lastReturn,
                 feedReturn, fetchReturn, pager, repeatReturn>>
  /\ UNCHANGED clientVars

\* the reader makes its last call once more, with the same arguments, while
\* it still holds the first response
RepeatCall ==
  /\ feedReturn # NoFeed \/ fetchReturn # NoFetch
  /\ pager.pc = "idle"
  /\ repeatReturn = NoRepeat
  /\ selectReturn = NoSelect
  /\ IF fetchReturn.kind = "result"
     THEN LET params == fetchReturn.params
              rpc == get_confess_feed(confessions, now, RpcParams(params))
          IN  repeatReturn' =
                IF FetchSkipsRpc(params)
                THEN [kind |-> "repeat", feed |-> NoFeed,
                      fetch |-> EmptyResult(params)]
                ELSE [kind |-> "repeat", feed |-> rpc,
                      fetch |-> FeedResult(params, rpc)]
     ELSE repeatReturn' =
            [kind |-> "repeat",
             feed |-> get_confess_feed(confessions, now, feedReturn.args),
             fetch |-> NoFetch]
  /\ UNCHANGED <<now, ticks, confessions, calls, lastReturn,
                 feedReturn, fetchReturn, pager, selectReturn>>
  /\ UNCHANGED clientVars

NextFeed ==
  \/ \E a \in FeedRequests : CallGetConfessFeed(a)
  \/ \E params \in FetchRequests : fetchFeed(params)
  \/ \E req \in PagerRequests : PagerStart(req)
  \/ PagerNext
  \/ ReceiveFeed
  \/ RepeatCall
  \/ SelectConfessions
  \/ SweepCron
  \/ SweepFunction

SpecFeed == InitFeed /\ [][NextFeed]_vars

\* ================================================================ session
\* The client's session manager and the App callbacks that drive it: mount,
\* visibility changes, the three feed loaders and the ad insertion effect.

\* the client clock visits 0, 599999, 600000, 1199999, ...: one millisecond
\* short of the background threshold, exactly at it and past it
SessionClockSteps == <<BACKGROUND_THRESHOLD_MS - 1, 1, BACKGROUND_THRESHOLD_MS - 1>>
SessionClockStep(k) == SessionClockSteps[(k % Len(SessionClockSteps)) + 1]

\* what a fetchFeed call of a loader can come back with: no rows (an empty
\* page or a swallowed error) or some rows
FetchedRows == {0, 2}

Mounted == state.sessionId # 0

InitSession ==
  /\ now = 0
  /\ ticks = 0
  /\ confessions = {}
  /\ calls = [c \in Conns |-> IdleCall]
  /\ lastReturn = NoReturn
  /\ feedReturn = NoFeed
  /\ fetchReturn = NoFetch
  /\ pager = IdlePager
  /\ repeatReturn = NoRepeat
  /\ selectReturn = NoSelect
  /\ state = InitialSessionState
  /\ storageAvailable \in BOOLEAN
  \* a timestamp an earlier run of the app may have left behind
  /\ lastBackgroundAt \in (IF storageAvailable THEN {NULL, 0} ELSE {NULL})
  /\ clientNow = 0
  /\ clientTicks = 0
  /\ sessionsStarted = 0
  /\ adInserted = FALSE
  /\ adMarkedRef = FALSE
  /\ event = NoEvent
  /\ PlaceIdle
  /\ AppIdle

\* the page is (re)loaded and the App mounts: the module state and the
\* component state start over, then the mount effect runs
initSessionIfNeeded ==
  /\ sessionsStarted < MaxSessions
  /\ state' = startNewSession(generateSessionId)
  /\ lastBackgroundAt' = clearLastBackgroundAt
  /\ sessionsStarted' = sessionsStarted + 1
  /\ adInserted' = FALSE
  /\ adMarkedRef' = FALSE
  /\ event' = [NoEvent EXCEPT !.type = "mount"]
  /\ UNCHANGED <<storageAvailable, clientNow, clientTicks>>
  /\ UNCHANGED <<serverVars, placeVars, appVars>>

\* visibilitychange to hidden
onAppBackground ==
  /\ Mounted
  /\ lastBackgroundAt' = setLastBackgroundAt(clientNow)
  /\ event' = [NoEvent EXCEPT !.type = "background"]
  /\ UNCHANGED <<state, storageAvailable, clientNow, clientTicks,
                 sessionsStarted, adInserted, adMarkedRef>>
  /\ UNCHANGED <<serverVars, placeVars, appVars>>

\* visibilitychange to visible: handleVisibilityChange around onAppForeground
onAppForeground ==
  /\ Mounted
  /\ LET stored == getLastBackgroundAt
         expired == SessionExpired(stored, clientNow)
         wasAdShown == hasAdShown(state)
     IN /\ expired => sessionsStarted < MaxSessions
        /\ state' = IF expired THEN startNewSession(generateSessionId) ELSE state
        /\ sessionsStarted' = IF expired THEN sessionsStarted + 1 ELSE sessionsStarted
        /\ lastBackgroundAt' = IF stored # NULL THEN clearLastBackgroundAt
                                                ELSE lastBackgroundAt
        /\ IF wasAdShown /\ ~hasAdShown(state')
             THEN adInserted' = FALSE /\ adMarkedRef' = FALSE
             ELSE UNCHANGED <<adInserted, adMarkedRef>>
        /\ event' = [NoEvent EXCEPT
                       !.type = "foreground",
                       !.elapsed = IF stored = NULL THEN NULL
                                                    ELSE clientNow - stored]
  /\ UNCHANGED <<storageAvailable, clientNow, clientTicks>>
  /\ UNCHANGED <<serverVars, placeVars, appVars>>

\* what a loader does to the session once its fetchFeed call came back with
\* `rows` rows: pagination counts only when the page is not empty
Loaded(type, reset, rows) ==
  /\ Mounted
  /\ state.pageFetchCount < MaxFetches
  /\ state' = IF ~reset /\ rows > 0 THEN recordPageFetch(state) ELSE state
  /\ event' = [NoEvent EXCEPT !.type = type, !.reset = reset, !.rows = rows]
  /\ UNCHANGED <<lastBackgroundAt, storageAvailable, clientNow, clientTicks,
                 sessionsStarted, adInserted, adMarkedRef>>
  /\ UNCHANGED <<serverVars, placeVars, appVars>>

loadWorld(reset, rows) == Loaded("loadWorld", reset, rows)
loadPlace(reset, rows) == Loaded("loadPlace", reset, rows)
\* the reset branch widens the radius over several fetches and never counts
loadNearMe(reset, rows) == Loaded("loadNearMe", reset, rows)

\* (variant: the effect inserts the ad whenever the session is armed, without
\* looking at its own guards)
AdInsertionEffectUnguarded ==
  /\ Mounted
  /\ state.adArmed
  /\ adMarkedRef' = TRUE
  /\ adInserted' = TRUE
  /\ state' = [state EXCEPT !.adShown = TRUE]
  /\ event' = [NoEvent EXCEPT !.type = "ad"]
  /\ UNCHANGED <<lastBackgroundAt, storageAvailable, clientNow, clientTicks,
                 sessionsStarted>>
  /\ UNCHANGED <<serverVars, placeVars, appVars>>
\* the ad insertion effect of the App, when its condition holds
AdInsertionEffect ==
  /\ Mounted
  /\ isAdArmed(state) /\ ~hasAdShown(state) /\ ~adInserted /\ ~adMarkedRef
  /\ adMarkedRef' = TRUE
  /\ adInserted' = TRUE
  /\ state' = markAdShown(state)
  /\ event' = [NoEvent EXCEPT !.type = "ad"]
  /\ UNCHANGED <<lastBackgroundAt, storageAvailable, clientNow, clientTicks,
                 sessionsStarted>>
  /\ UNCHANGED <<serverVars, placeVars, appVars>>

\* time passes on the client
ClientTick ==
  /\ clientTicks < MaxClientTicks
  /\ clientNow' = clientNow + SessionClockStep(clientTicks)
  /\ clientTicks' = clientTicks + 1
  /\ event' = [NoEvent EXCEPT !.type = "tick"]
  /\ UNCHANGED <<state, lastBackgroundAt, storageAvailable, sessionsStarted,
                 adInserted, adMarkedRef>>
  /\ UNCHANGED <<serverVars, placeVars, appVars>>

NextSession ==
  \/ initSessionIfNeeded
  \/ onAppBackground
  \/ onAppForeground
  \/ \E reset \in BOOLEAN, rows \in FetchedRows : loadWorld(reset, rows)
  \/ \E reset \in BOOLEAN, rows \in FetchedRows : loadPlace(reset, rows)
  \/ \E reset \in BOOLEAN, rows \in FetchedRows : loadNearMe(reset, rows)
  \/ AdInsertionEffect
  \/ ClientTick

SpecSession == InitSession /\ [][NextSession]_vars

\* ================================================================== place
\* resolve_place (edge function), the place_cache table and the client's
\* resolvePlace, with calls running concurrently on the connections.

Oslo == <<"O","s","l","o">>
\* the queries clients send: two spellings of one place, and queries the
\* validation turns away (missing, too short, too long)
PlaceQueries ==
  { Oslo, <<" ","o","S","L","O","\t">>,
    NullText, <<" ","x"," ">>, Rep("a", MAX_QUERY + 1) }

\* the first result of a geocoder answer
GeoResult(lat, name) == [lat |-> lat, lon |-> <<"5">>, display_name |-> name]
OsloDisplayName == <<"O","s","l","o",","," ","N","o","r","g","e">>
\* what the geocoder can answer: failures of the three kinds, a JSON body
\* that is no array, no result, a result (two different latitudes, so that
\* answers to one query can differ), a result whose latitude is no number
\* and a result without display_name
GeoAnswers ==
  { [kind |-> k, data |-> <<>>] :
      k \in {"fetchThrows", "notOk", "notJson", "notArray", "array"} }
  \cup { [kind |-> "array", data |-> <<GeoResult(l, OsloDisplayName)>>] :
           l \in {<<"1","0">>, <<"2","0","x">>, <<"x">>} }
  \cup { [kind |-> "array", data |-> <<GeoResult(<<"1","0">>, NullText)>>] }

NetOutcomes == {"ok", "fetchError", "gateway404"}

InitPlace ==
  /\ now = 0
  /\ ticks = 0
  /\ confessions = {}
  /\ calls = [c \in Conns |-> IdleCall]
  /\ lastReturn = NoReturn
  /\ feedReturn = NoFeed
  /\ fetchReturn = NoFetch
  /\ pager = IdlePager
  /\ repeatReturn = NoRepeat
  /\ selectReturn = NoSelect
  /\ state = InitialSessionState
  /\ lastBackgroundAt = NULL
  /\ storageAvailable = TRUE
  /\ clientNow = 0
  /\ clientTicks = 0
  /\ sessionsStarted = 0
  /\ adInserted = FALSE
  /\ adMarkedRef = FALSE
  /\ event = NoEvent
  /\ PlaceIdle
  /\ AppIdle

\* the client has taken the result of its last call
PlaceDelivered == placeReturn = NoPlaceReturn

\* a call being handled: the request, what the cache lookup saw and the
\* geocoder's answer (none while it was not asked)
PlaceCall(pc, n, q, had, hit, ans, resp) ==
  [pc |-> pc, call |-> n, q |-> q, had |-> had, hit |-> hit,
   answer |-> ans, response |-> resp]

\* resolve_place up to its first wait on the geocoder: validation and the
\* cache lookup. dbOk is whether the SELECT worked; .single() reports an
\* error unless exactly one row matches, and any error counts as a miss
CallResolvePlace(c, q, dbOk) ==
  /\ PlaceDelivered
  /\ placeCalls[c].pc = "idle"
  /\ placeCallsMade < MaxPlaceCalls
  /\ placeCallsMade' = placeCallsMade + 1
  /\ LET n == placeCallsMade + 1
         err == ValidateQuery(q)
         found == IF err = "" THEN {r \in place_cache :
                                      r.q_lower = normalizeQuery(JsTrim(q))}
                              ELSE {}
         hit == dbOk /\ Cardinality(found) = 1
         cached == CHOOSE r \in found : TRUE
     IN placeCalls' = [placeCalls EXCEPT ![c] =
          IF err # ""
            THEN PlaceCall("respond", n, q, FALSE, FALSE, NoAnswer,
                           ErrorResponse(400, err))
          ELSE IF hit
            THEN PlaceCall("respond", n, q, TRUE, TRUE, NoAnswer,
                           OkResponse(cached.lat, cached.lng, cached.name, "cache"))
          ELSE PlaceCall("provider", n, q, found # {}, FALSE, NoAnswer,
                         NotFoundResponse)]
  /\ UNCHANGED <<place_cache, placeWrites, placeReturn>>
  /\ UNCHANGED <<serverVars, sessionVars, appVars>>

\* the row resolve_place sends to the cache for a geocoder result
CacheRow(n, q, ans) ==
  [id |-> n, q |-> JsTrim(q), q_lower |-> normalizeQuery(JsTrim(q)),
   lat |-> parseFloat(ans.data[1].lat), lng |-> parseFloat(ans.data[1].lon),
   name |-> FirstSegment(ans.data[1].display_name), provider |-> "nominatim"]

\* (variant: the function waits for the cache insert and reports its failure)
ProviderRepliesAwaitingInsert(c, ans) ==
  /\ PlaceDelivered
  /\ placeCalls[c].pc = "provider"
  /\ LET call == placeCalls[c]
         row == CacheRow(call.call, call.q, ans)
     IN IF ProviderSucceeded(ans)
          THEN \E dbOk \in BOOLEAN :
                 LET done == dbOk /\ ~\E r \in place_cache : r.q_lower = row.q_lower
                 IN /\ place_cache' = IF done THEN place_cache \cup {row}
                                              ELSE place_cache
                    /\ placeCalls' = [placeCalls EXCEPT ![c] =
                         [call EXCEPT !.pc = "respond", !.answer = ans,
                            !.response = IF done THEN ProviderResponse(ans)
                                         ELSE ErrorResponse(500, "Internal server error")]]
          ELSE /\ place_cache' = place_cache
               /\ placeCalls' = [placeCalls EXCEPT ![c] =
                    [call EXCEPT !.pc = "respond", !.answer = ans,
                                 !.response = ProviderResponse(ans)]]
  /\ UNCHANGED <<placeWrites, placeReturn, placeCallsMade>>
  /\ UNCHANGED <<serverVars, sessionVars, appVars>>
\* the geocoder's answer arrives: resolve_place builds its response and, for
\* a usable result, sends the cache insert without waiting for it
ProviderReplies(c, ans) ==
  /\ PlaceDelivered
  /\ placeCalls[c].pc = "provider"
  /\ LET call == placeCalls[c]
     IN /\ placeCalls' = [placeCalls EXCEPT ![c] =
             [call EXCEPT !.pc = "respond", !.answer = ans,
                          !.response = ProviderResponse(ans)]]
        /\ placeWrites' = IF ProviderSucceeded(ans)
                            THEN placeWrites \cup {CacheRow(call.call, call.q, ans)}
                            ELSE placeWrites
  /\ UNCHANGED <<place_cache, placeReturn, placeCallsMade>>
  /\ UNCHANGED <<serverVars, sessionVars, appVars>>

\* (variant: the table has no unique index on q_lower)
CacheInsertNoUniqueIndex(w, dbOk) ==
  /\ PlaceDelivered
  /\ w \in placeWrites
  /\ placeWrites' = placeWrites \ {w}
  /\ place_cache' = IF dbOk THEN place_cache \cup {w} ELSE place_cache
  /\ UNCHANGED <<placeCalls, placeReturn, placeCallsMade>>
  /\ UNCHANGED <<serverVars, sessionVars, appVars>>
\* a cache insert reaches the table: it adds the row unless the insert fails
\* (dbOk false) or the unique index on q_lower rejects it; the function only
\* logs the outcome
CacheInsert(w, dbOk) ==
  /\ PlaceDelivered
  /\ w \in placeWrites
  /\ placeWrites' = placeWrites \ {w}
  /\ place_cache' =
       IF dbOk /\ ~\E r \in place_cache : r.q_lower = w.q_lower
         THEN place_cache \cup {w}
         ELSE place_cache
  /\ UNCHANGED <<placeCalls, placeReturn, placeCallsMade>>
  /\ UNCHANGED <<serverVars, sessionVars, appVars>>

\* the client's resolvePlace gets the outcome of its invocation
ReceivePlace(c, net) ==
  /\ PlaceDelivered
  /\ placeCalls[c].pc = "respond"
  /\ LET call == placeCalls[c]
     IN placeReturn' =
          [kind |-> "result", call |-> call.call, q |-> call.q, had |-> call.had,
           hit |-> call.hit, answer |-> call.answer, net |-> net,
           response |-> call.response,
           result |-> resolvePlace(call.q, net, call.response)]
  /\ placeCalls' = [placeCalls EXCEPT ![c] = IdlePlaceCall]
  /\ UNCHANGED <<place_cache, placeWrites, placeCallsMade>>
  /\ UNCHANGED <<serverVars, sessionVars, appVars>>

\* the caller of resolvePlace takes the result
TakePlace ==
  /\ ~PlaceDelivered
  /\ placeReturn' = NoPlaceReturn
  /\ UNCHANGED <<place_cache, placeCalls, placeWrites, placeCallsMade>>
  /\ UNCHANGED <<serverVars, sessionVars, appVars>>

NextPlace ==
  \/ \E c \in Conns, q \in PlaceQueries, dbOk \in BOOLEAN : CallResolvePlace(c, q, dbOk)
  \/ \E c \in Conns, ans \in GeoAnswers : ProviderReplies(c, ans)
  \/ \E w \in placeWrites, dbOk \in BOOLEAN : CacheInsert(w, dbOk)
  \/ \E c \in Conns, net \in NetOutcomes : ReceivePlace(c, net)
  \/ TakePlace

SpecPlace == InitPlace /\ [][NextPlace]_vars

\* ------------------------------------------------------------ App inputs
\* created_at of the newest row a first page can hold
AppTop == 1000
\* how many rows the RPC finds: none, fewer than MIN_RESULTS, and more than
\* a page
RowCounts == {0, MIN_RESULTS - 1, DEFAULT_LIMIT + 1}
\* how one supabase.rpc('get_confess_feed') call ends
FetchOutcomes ==
  {[kind |-> "rpcError", n |-> 0], [kind |-> "throws", n |-> 0]}
  \cup {[kind |-> "rows", n |-> n] : n \in RowCounts}

\* positions getCurrentPosition reports
DeviceFixes == {[lat |-> 1, lng |-> 0]}
\* rows of places_cache offered as popular places (one without coordinates)
Bergen == <<"B","e","r","g","e","n">>
PopularPlaces ==
  {[name |-> Bergen, lat |-> 60, lng |-> 5],
   [name |-> Oslo, lat |-> NULL, lng |-> NULL]}
\* what resolve_place answers to the App's query
ResolveResponses ==
  {OkResponse(59, 10, Oslo, "nominatim"), NotFoundResponse,
   ErrorResponse(502, "Geocoding provider error")}

\* the query a row was returned for
Query(params) ==
  [mode |-> params.mode, lat |-> params.lat, lng |-> params.lng,
   radiusM |-> params.radiusM]
\* the rows the RPC returns for params when it finds n: the n newest rows
\* older than the cursor, each carrying the query it answers
RpcRows(params, n) ==
  LET top == IF params.cursor = NoCursor THEN AppTop
                                         ELSE params.cursor.created_at
  IN  [k \in 1..n |-> [id |-> top - k, created_at |-> top - k,
                       from |-> Query(params)]]

\* fetchFeed(params) when the RPC ends as out
FetchFeedOutcome(params, out) ==
  IF FetchSkipsRpc(params) \/ out.kind = "throws" THEN EmptyResult(params)
  ELSE FeedResult(params,
         IF out.kind = "rpcError" THEN [kind |-> "error", rows |-> <<>>]
         ELSE [kind |-> "rows", rows |-> RpcRows(params, out.n)])

\* ResolvedPlace { query, name, lat, lng }
ResolvedPlace(query, name, lat, lng) ==
  [query |-> query, name |-> name, lat |-> lat, lng |-> lng]
\* getCachedPlace(query)
getCachedPlace(query) == {p \in cachedPlaces : p.query = query}
\* setCachedPlace(place)
setCachedPlace(place) ==
  {p \in cachedPlaces : p.query # place.query} \cup {place}

\* ----------------------------------------------------------- App loaders
Threads == 1..MaxInFlight
Awaiting(i) == loads[i].pc = "await"
OnPlaceFeed(i) == Awaiting(i) /\ loads[i].kind # "world"
\* a loader at its await: what it captured and the fetchFeed call it waits
\* for (sent counts the calls it made, overlap remembers that a loader of
\* the other kind was writing the place feed while it ran)
LoadCall(kind, reset, lat, lng, radiusM, cursor, phase) ==
  [pc |-> "await", kind |-> kind, reset |-> reset, lat |-> lat, lng |-> lng,
   radiusM |-> radiusM, cursor |-> cursor, phase |-> phase, attempts |-> 1,
   sent |-> 1, overlap |-> FALSE]
\* fetchFeed's params for the call loader L waits for
ParamsOf(L) ==
  FetchParams(IF L.kind = "world" THEN "world" ELSE "near", NULL, L.cursor,
              L.lat, L.lng, L.radiusM, TRUE)

\* loads after loader i started as call c
WithLoad(i, c) ==
  [j \in Threads |->
     IF j = i
     THEN [c EXCEPT !.overlap =
             \E k \in Threads \ {i} :
               OnPlaceFeed(k) /\ c.kind # "world" /\ loads[k].kind # c.kind]
     ELSE IF OnPlaceFeed(j) /\ c.kind # "world" /\ loads[j].kind # c.kind
     THEN [loads[j] EXCEPT !.overlap = TRUE]
     ELSE loads[j]]

\* loadWorld(reset) up to its await
BeginWorld(i, reset) ==
  /\ worldFeed' = [worldFeed EXCEPT !.loading = TRUE]
  /\ loads' = WithLoad(i, LoadCall("world", reset, NULL, NULL, NULL,
                 IF reset THEN NoCursor ELSE worldFeed.cursor, "single"))
  /\ loadsStarted' = loadsStarted + 1
  /\ UNCHANGED placeFeed

\* the guard of loadPlace
ValidPlace(place) ==
  place.lat # NULL /\ place.lng # NULL /\ place.lat # NaN /\ place.lng # NaN

\* loadPlace(place, reset) up to its await
BeginPlace(i, place, reset) ==
  /\ IF ValidPlace(place)
     THEN /\ placeFeed' = [placeFeed EXCEPT !.loading = TRUE]
          /\ loads' = WithLoad(i, LoadCall("place", reset, place.lat,
                         place.lng, PLACE_RADIUS_M,
                         IF reset THEN NoCursor ELSE placeFeed.cursor,
                         "single"))
          /\ loadsStarted' = loadsStarted + 1
     ELSE UNCHANGED <<placeFeed, loads, loadsStarted>>
  /\ UNCHANGED worldFeed

\* loadNearMe(lat, lng, reset) up to its first await
BeginNearMe(i, lat, lng, reset) ==
  /\ placeFeed' = [placeFeed EXCEPT !.loading = TRUE]
  /\ loads' = WithLoad(i,
       IF reset
       THEN LoadCall("near", TRUE, lat, lng, NEAR_ME_RADII[1], NoCursor,
                     "expand")
       ELSE LoadCall("near", FALSE, lat, lng, nearMeRadius, placeFeed.cursor,
                     "single"))
  /\ loadsStarted' = loadsStarted + 1
  /\ UNCHANGED worldFeed

\* a loader can start, and the slot it takes
CanLoad == loadsStarted < MaxLoads /\ \E i \in Threads : loads[i].pc = "idle"
Slot == Min({i \in Threads : loads[i].pc = "idle"})

\* the FeedState a loader sets from a result
FeedAfter(prev, result, reset) ==
  [confessions |-> IF reset THEN result.confessions
                   ELSE prev.confessions \o result.confessions,
   cursor |-> result.nextCursor, hasMore |-> result.hasMore,
   loading |-> FALSE, hasFetched |-> TRUE]

sessionRest ==
  <<lastBackgroundAt, storageAvailable, clientNow, clientTicks,
    sessionsStarted, adInserted, adMarkedRef, event>>

\* the fetchFeed call of loader i returns and the loader runs on to its next
\* await or to its end
FetchReturns(i, out) ==
  /\ Awaiting(i)
  /\ LET L == loads[i]
         result == FetchFeedOutcome(ParamsOf(L), out)
         n == Len(result.confessions)
         k == L.attempts
     IN
     /\ lastFetch' = [kind |-> out.kind, params |-> ParamsOf(L),
                      result |-> result]
     /\ IF L.kind = "world"
        THEN /\ state' = IF ~L.reset /\ n > 0 THEN recordPageFetch(state)
                                               ELSE state
             /\ worldFeed' = FeedAfter(worldFeed, result, L.reset)
             /\ loads' = [loads EXCEPT ![i] = IdleLoad]
             /\ UNCHANGED <<placeFeed, nearMeRadius>>
        ELSE IF L.phase = "single"
        THEN /\ state' = IF ~L.reset /\ n > 0 THEN recordPageFetch(state)
                                               ELSE state
             /\ placeFeed' = FeedAfter(placeFeed, result, L.reset)
             /\ loads' = [loads EXCEPT ![i] = IdleLoad]
             /\ UNCHANGED <<worldFeed, nearMeRadius>>
        ELSE IF L.phase = "fallback"
        THEN /\ placeFeed' = FeedAfter(placeFeed, result, TRUE)
             /\ loads' = [loads EXCEPT ![i] = IdleLoad]
             /\ UNCHANGED <<state, worldFeed, nearMeRadius>>
        ELSE IF n >= MIN_RESULTS \/ L.radiusM = NEAR_ME_RADII[Len(NEAR_ME_RADII)]
        THEN /\ nearMeRadius' = L.radiusM
             /\ placeFeed' = FeedAfter(placeFeed, result, TRUE)
             /\ loads' = [loads EXCEPT ![i] = IdleLoad]
             /\ UNCHANGED <<state, worldFeed>>
        ELSE IF k >= MAX_ATTEMPTS
        THEN /\ nearMeRadius' = L.radiusM
             /\ loads' = [loads EXCEPT ![i] =
                            [L EXCEPT !.phase = "fallback", !.sent = @ + 1]]
             /\ UNCHANGED <<state, worldFeed, placeFeed>>
        ELSE /\ loads' = [loads EXCEPT ![i] =
                            [L EXCEPT !.attempts = k + 1,
                                      !.radiusM = NEAR_ME_RADII[k + 1],
                                      !.sent = @ + 1]]
             /\ UNCHANGED <<state, worldFeed, placeFeed, nearMeRadius>>
  /\ UNCHANGED <<tab, deviceLocation, geoStatus, geoPending, somewherePlace,
                 cachedPlaces, resolving, loadsStarted, lastSubmit, submits>>
  /\ UNCHANGED <<serverVars, placeVars, sessionRest>>

\* ---------------------------------------------------------- App handlers
\* the state after the App mounted: a session has started and the mount
\* effect's loadWorld(true) is at its await
InitApp ==
  /\ now = 0
  /\ ticks = 0
  /\ confessions = {}
  /\ calls = [c \in Conns |-> IdleCall]
  /\ lastReturn = NoReturn
  /\ feedReturn = NoFeed
  /\ fetchReturn = NoFetch
  /\ pager = IdlePager
  /\ repeatReturn = NoRepeat
  /\ selectReturn = NoSelect
  /\ state = startNewSession(1)
  /\ lastBackgroundAt = NULL
  /\ storageAvailable = TRUE
  /\ clientNow = 0
  /\ clientTicks = 0
  /\ sessionsStarted = 1
  /\ adInserted = FALSE
  /\ adMarkedRef = FALSE
  /\ event = [NoEvent EXCEPT !.type = "mount"]
  /\ PlaceIdle
  /\ tab = "world"
  /\ deviceLocation = NoPoint
  /\ geoStatus = "idle"
  /\ geoPending = 0
  /\ somewherePlace = NoPoint
  /\ cachedPlaces = {}
  /\ resolving = NoResolve
  /\ worldFeed = [emptyFeed EXCEPT !.loading = TRUE]
  /\ placeFeed = emptyFeed
  /\ nearMeRadius = NEAR_ME_RADII[Len(NEAR_ME_RADII)]
  /\ loads = [i \in Threads |->
                IF i = 1 THEN LoadCall("world", TRUE, NULL, NULL, NULL,
                                       NoCursor, "single")
                ELSE IdleLoad]
  /\ loadsStarted = 0
  /\ lastFetch = NoFetchSeen
  /\ lastSubmit = NoSubmit
  /\ submits = 0

appRest == <<serverVars, placeVars, sessionVars>>

\* the World tab button, and the effect on [tab] behind it
ClickWorld ==
  /\ tab' = "world"
  /\ IF tab # "world" /\ Len(worldFeed.confessions) = 0 /\ ~worldFeed.loading
     THEN CanLoad /\ BeginWorld(Slot, TRUE)
     ELSE UNCHANGED <<worldFeed, placeFeed, loads, loadsStarted>>
  /\ UNCHANGED <<deviceLocation, geoStatus, geoPending, somewherePlace,
                 cachedPlaces, resolving, nearMeRadius, lastSubmit,
                 submits>>
  /\ lastFetch' = NoFetchSeen
  /\ UNCHANGED appRest

\* the Somewhere tab button
ClickSomewhere ==
  /\ tab' = "somewhere"
  /\ UNCHANGED <<deviceLocation, geoStatus, geoPending, somewherePlace,
                 cachedPlaces, resolving, worldFeed, placeFeed, nearMeRadius,
                 loads, loadsStarted, lastSubmit, submits>>
  /\ lastFetch' = NoFetchSeen
  /\ UNCHANGED appRest

\* what handleNearMeClick and fallbackToNearMe do once the tab is set, given
\* the deviceLocation and geoStatus of the render they were created in
NearMeFrom(location, status, supported) ==
  IF location # NoPoint
  THEN /\ CanLoad
       /\ BeginNearMe(Slot, location.lat, location.lng, TRUE)
       /\ UNCHANGED <<geoStatus, geoPending>>
  ELSE IF status = "requesting"
  THEN UNCHANGED <<geoStatus, geoPending, worldFeed, placeFeed, loads,
                   loadsStarted>>
  ELSE IF ~supported
  THEN /\ geoStatus' = "error"
       /\ UNCHANGED <<geoPending, worldFeed, placeFeed, loads, loadsStarted>>
  ELSE /\ geoPending < MaxGeoPending
       /\ geoStatus' = "requesting"
       /\ geoPending' = geoPending + 1
       /\ UNCHANGED <<worldFeed, placeFeed, loads, loadsStarted>>

\* the Near me tab button and the "Enable location" button
handleNearMeClick(supported) ==
  /\ tab' = "near"
  /\ NearMeFrom(deviceLocation, geoStatus, supported)
  /\ UNCHANGED <<deviceLocation, somewherePlace, cachedPlaces, resolving,
                 nearMeRadius, lastSubmit, submits>>
  /\ lastFetch' = NoFetchSeen
  /\ UNCHANGED appRest

\* the success callback of getCurrentPosition
GeoSuccess(fix) ==
  /\ geoPending > 0
  /\ CanLoad
  /\ geoPending' = geoPending - 1
  /\ deviceLocation' = fix
  /\ geoStatus' = "granted"
  /\ BeginNearMe(Slot, fix.lat, fix.lng, TRUE)
  /\ UNCHANGED <<tab, somewherePlace, cachedPlaces, resolving, nearMeRadius,
                 lastSubmit, submits>>
  /\ lastFetch' = NoFetchSeen
  /\ UNCHANGED appRest

\* the error callback of getCurrentPosition
GeoError(denied) ==
  /\ geoPending > 0
  /\ geoPending' = geoPending - 1
  /\ geoStatus' = IF denied THEN "denied" ELSE "error"
  /\ UNCHANGED <<tab, deviceLocation, somewherePlace, cachedPlaces, resolving,
                 worldFeed, placeFeed, nearMeRadius, loads, loadsStarted,
                 lastSubmit, submits>>
  /\ lastFetch' = NoFetchSeen
  /\ UNCHANGED appRest

\* the Listen button, up to the await of resolvePlace
handleSomewhereListen(query) ==
  /\ tab = "somewhere"
  /\ Len(JsTrim(query)) >= 2
  /\ resolving.pc = "idle"
  /\ LET q == JsTrim(query)
         cached == getCachedPlace(q)
     IN  IF cached # {}
         THEN LET place == CHOOSE p \in cached : TRUE
              IN  /\ somewherePlace' = place
                  /\ ValidPlace(place) => CanLoad
                  /\ BeginPlace(Slot, place, TRUE)
                  /\ UNCHANGED resolving
         ELSE /\ resolving' = [pc |-> "await", query |-> q,
                               deviceLocation |-> deviceLocation,
                               geoStatus |-> geoStatus]
              /\ UNCHANGED <<somewherePlace, worldFeed, placeFeed, loads,
                             loadsStarted>>
  /\ UNCHANGED <<tab, deviceLocation, geoStatus, geoPending, cachedPlaces,
                 nearMeRadius, lastSubmit, submits>>
  /\ lastFetch' = NoFetchSeen
  /\ UNCHANGED appRest

\* resolvePlace returns to handleSomewhereListen; NOT_FOUND runs
\* fallbackToNearMe
ResolveReturns(net, resp, supported) ==
  /\ resolving.pc = "await"
  /\ resolving' = NoResolve
  /\ LET result == resolvePlace(resolving.query, net, resp) IN
     IF result.ok
     THEN LET place == ResolvedPlace(resolving.query, result.name,
                                     result.lat, result.lng)
          IN  /\ cachedPlaces' = setCachedPlace(place)
              /\ somewherePlace' = place
              /\ ValidPlace(place) => CanLoad
              /\ BeginPlace(Slot, place, TRUE)
              /\ UNCHANGED <<tab, geoStatus, geoPending>>
     ELSE IF result.reason = "NOT_FOUND"
     THEN /\ tab' = "near"
          /\ NearMeFrom(resolving.deviceLocation, resolving.geoStatus,
                        supported)
          /\ UNCHANGED <<cachedPlaces, somewherePlace>>
     ELSE UNCHANGED <<tab, geoStatus, geoPending, cachedPlaces,
                      somewherePlace, worldFeed, placeFeed, loads,
                      loadsStarted>>
  /\ UNCHANGED <<deviceLocation, nearMeRadius, lastSubmit, submits>>
  /\ lastFetch' = NoFetchSeen
  /\ UNCHANGED appRest

\* a popular-place button, or Random
handlePickPlace(p) ==
  /\ tab = "somewhere"
  /\ somewherePlace = NoPoint
  /\ LET resolved == ResolvedPlace(p.name, p.name, p.lat, p.lng)
     IN  /\ somewherePlace' = resolved
         /\ cachedPlaces' = setCachedPlace(resolved)
         /\ ValidPlace(resolved) => CanLoad
         /\ BeginPlace(Slot, resolved, TRUE)
  /\ UNCHANGED <<tab, deviceLocation, geoStatus, geoPending, resolving,
                 nearMeRadius, lastSubmit, submits>>
  /\ lastFetch' = NoFetchSeen
  /\ UNCHANGED appRest

currentFeed == IF tab = "world" THEN worldFeed ELSE placeFeed

\* the Load more button
LoadMore ==
  /\ currentFeed.hasMore /\ ~currentFeed.loading
  /\ IF tab = "world"
     THEN CanLoad /\ BeginWorld(Slot, FALSE)
     ELSE IF tab = "near" /\ deviceLocation # NoPoint
     THEN /\ CanLoad
          /\ BeginNearMe(Slot, deviceLocation.lat, deviceLocation.lng, FALSE)
     ELSE IF tab = "somewhere" /\ somewherePlace # NoPoint
     THEN /\ ValidPlace(somewherePlace) => CanLoad
          /\ BeginPlace(Slot, somewherePlace, FALSE)
     ELSE UNCHANGED <<worldFeed, placeFeed, loads, loadsStarted>>
  /\ UNCHANGED <<tab, deviceLocation, geoStatus, geoPending, somewherePlace,
                 cachedPlaces, resolving, nearMeRadius, lastSubmit,
                 submits>>
  /\ lastFetch' = NoFetchSeen
  /\ UNCHANGED appRest

\* canSubmit, for a text that is not blank
canSubmit ==
  /\ lastSubmit.kind # "sent"
  /\ tab = "world" \/ tab = "somewhere"
       \/ (tab = "near" /\ deviceLocation # NoPoint)

\* (variant: on the Somewhere tab the place's coordinates are posted)
handleSubmitAtPlace ==
  /\ canSubmit
  /\ submits < MaxSubmits
  /\ submits' = submits + 1
  /\ lastSubmit' =
       IF tab = "somewhere" /\ somewherePlace # NoPoint
       THEN [kind |-> "sent", tab |-> tab, lat |-> somewherePlace.lat,
             lng |-> somewherePlace.lng]
       ELSE [kind |-> "sent", tab |-> tab, lat |-> deviceLocation.lat,
             lng |-> deviceLocation.lng]
  /\ UNCHANGED <<tab, deviceLocation, geoStatus, geoPending, somewherePlace,
                 cachedPlaces, resolving, worldFeed, placeFeed, nearMeRadius,
                 loads, loadsStarted>>
  /\ lastFetch' = NoFetchSeen
  /\ UNCHANGED appRest

\* handleSubmit up to the await of insertConfession
handleSubmit ==
  /\ canSubmit
  /\ submits < MaxSubmits
  /\ submits' = submits + 1
  /\ lastSubmit' = [kind |-> "sent", tab |-> tab, lat |-> deviceLocation.lat,
                    lng |-> deviceLocation.lng]
  /\ UNCHANGED <<tab, deviceLocation, geoStatus, geoPending, somewherePlace,
                 cachedPlaces, resolving, worldFeed, placeFeed, nearMeRadius,
                 loads, loadsStarted>>
  /\ lastFetch' = NoFetchSeen
  /\ UNCHANGED appRest

\* the confession insert_confession returned for what handleSubmit sent
Posted(sent) ==
  [id |-> AppTop + 1, created_at |-> AppTop + 1,
   from |-> [mode |-> "post", lat |-> sent.lat, lng |-> sent.lng,
             radiusM |-> NULL]]

\* insertConfession returns to handleSubmit
SubmitReturns(ok) ==
  /\ lastSubmit.kind = "sent"
  /\ lastSubmit' = NoSubmit
  /\ IF ok /\ lastSubmit.tab = "world"
     THEN /\ worldFeed' = [worldFeed EXCEPT
                             !.confessions = <<Posted(lastSubmit)>> \o @]
          /\ UNCHANGED placeFeed
     ELSE IF ok
     THEN /\ placeFeed' = [placeFeed EXCEPT
                             !.confessions = <<Posted(lastSubmit)>> \o @]
          /\ UNCHANGED worldFeed
     ELSE UNCHANGED <<worldFeed, placeFeed>>
  /\ UNCHANGED <<tab, deviceLocation, geoStatus, geoPending, somewherePlace,
                 cachedPlaces, resolving, nearMeRadius, loads, loadsStarted,
                 submits>>
  /\ lastFetch' = NoFetchSeen
  /\ UNCHANGED appRest

AppQueries == {Oslo}

\* the feeds: tabs, geolocation, popular places, loaders and Load more
NextApp ==
  \/ \E i \in Threads, out \in FetchOutcomes : FetchReturns(i, out)
  \/ ClickWorld
  \/ ClickSomewhere
  \/ \E supported \in BOOLEAN : handleNearMeClick(supported)
  \/ \E fix \in DeviceFixes : GeoSuccess(fix)
  \/ \E denied \in BOOLEAN : GeoError(denied)
  \/ \E p \in PopularPlaces : handlePickPlace(p)
  \/ LoadMore

SpecApp == InitApp /\ [][NextApp]_vars

\* in the runs that post, every query finds MIN_RESULTS rows: each loader
\* makes one call and no feed has more
PostOutcomes == {[kind |-> "rows", n |-> MIN_RESULTS]}

\* locations and posting: every handler that reads or writes a location,
\* with the loaders they start
NextPost ==
  \/ \E i \in Threads, out \in PostOutcomes : FetchReturns(i, out)
  \/ ClickWorld
  \/ ClickSomewhere
  \/ \E supported \in BOOLEAN : handleNearMeClick(supported)
  \/ \E fix \in DeviceFixes : GeoSuccess(fix)
  \/ \E denied \in BOOLEAN : GeoError(denied)
  \/ \E query \in AppQueries : handleSomewhereListen(query)
  \/ \E net \in NetOutcomes, resp \in ResolveResponses, supported \in BOOLEAN :
       ResolveReturns(net, resp, supported)
  \/ \E p \in PopularPlaces : handlePickPlace(p)
  \/ handleSubmit
  \/ \E ok \in BOOLEAN : SubmitReturns(ok)

SpecPost == InitApp /\ [][NextPost]_vars

\* ======================================================== admission claims
ErrorTags == {"EMPTY_TEXT", "TEXT_TOO_LONG", "CONTENT_BLOCKED", "RATE_LIMIT"}

\* what each text a client sends is, read off the text itself (computed once)
TextFacts ==
  [t \in SubmitTexts |->
     LET isNull == t = NullText
         body == IF isNull THEN <<>> ELSE t
         first == IF \E i \in 1..Len(body) : body[i] # " "
                  THEN Min({i \in 1..Len(body) : body[i] # " "}) ELSE 1
         last == IF \E i \in 1..Len(body) : body[i] # " "
                 THEN Max({i \in 1..Len(body) : body[i] # " "}) ELSE 0
     IN  [empty |-> isNull \/ last = 0,
          len |-> last - first + 1,
          hasAt |-> \E i \in 1..Len(body) : body[i] = "@",
          blocked |-> last # 0 /\ ContentBlocked(SubSeq(body, first, last))]]

\* what the text and the caller's history say about a finished call
RetEmpty(ret) == TextFacts[ret.p_text].empty
RetTrimmedLen(ret) == TextFacts[ret.p_text].len
RetBlocked(ret) == TextFacts[ret.p_text].blocked
RetCooling(ret) ==
  /\ ret.v_user_id # NullUser
  /\ ret.v_last_post # NULL
  /\ ret.txnow - ret.v_last_post < 15
RetHasAt(ret) == TextFacts[ret.p_text].hasAt
RetValidText(ret) ==
  ~RetEmpty(ret) /\ RetTrimmedLen(ret) <= 120 /\ ~RetBlocked(ret)

\* C1: two insert_confession calls of one (non-null) actor never both pass
\* the cooldown check: no actor owns two confessions created less than 15
\* seconds apart.
C1_NoDoublePass ==
  \A r1 \in confessions, r2 \in confessions :
    (r1.id # r2.id /\ r1.user_id = r2.user_id /\ r1.user_id # NullUser)
      => \/ r1.created_at - r2.created_at >= COOLDOWN_S
         \/ r2.created_at - r1.created_at >= COOLDOWN_S

\* C2: a submission with valid text by an actor whose latest confession was
\* created less than 15 seconds before now is rejected with RATE_LIMIT and
\* inserts nothing; at 15 seconds or more (or with no confession) it passes
\* to the insert.
C2_Cooldown ==
  [][/\ (lastReturn.kind = "none" /\ lastReturn'.kind = "error"
           /\ RetValidText(lastReturn') /\ lastReturn'.v_user_id # NullUser)
          => /\ \E r \in confessions :
                  /\ r.user_id = lastReturn'.v_user_id
                  /\ now - r.created_at < 15
             /\ InsertConfessionClient(lastReturn') = "RATE_LIMIT"
             /\ confessions' = confessions
             /\ calls' = calls
     /\ \A c \in Conns :
          (calls[c].pc = "idle" /\ calls'[c].pc = "insert"
             /\ calls'[c].v_user_id # NullUser)
          => \A r \in confessions :
               r.user_id = calls'[c].v_user_id => now - r.created_at >= 15]_vars

C2_Witness ==
  /\ lastReturn.kind = "error"
  /\ InsertConfessionClient(lastReturn) = "RATE_LIMIT"
  /\ \E r1 \in confessions, r2 \in confessions :
       /\ r1.user_id = lastReturn.v_user_id
       /\ r2.user_id = r1.user_id
       /\ r2.created_at = r1.created_at + 15

\* C3: the tag returned is that of the first failing check in the order
\* EMPTY_TEXT, TEXT_TOO_LONG, CONTENT_BLOCKED, RATE_LIMIT.
C3_FirstFailure ==
  lastReturn.kind # "none" =>
    InsertConfessionClient(lastReturn) =
      IF RetEmpty(lastReturn) THEN "EMPTY_TEXT"
      ELSE IF RetTrimmedLen(lastReturn) > 120 THEN "TEXT_TOO_LONG"
      ELSE IF RetBlocked(lastReturn) THEN "CONTENT_BLOCKED"
      ELSE IF RetCooling(lastReturn) THEN "RATE_LIMIT"
      ELSE "OK"

C3_Witness ==
  /\ lastReturn.kind = "error"
  /\ InsertConfessionClient(lastReturn) = "TEXT_TOO_LONG"
  /\ RetHasAt(lastReturn)
  /\ RetCooling(lastReturn)

\* C4 (as stated): every text containing '@' is rejected with CONTENT_BLOCKED.
C4_Original ==
  (lastReturn.kind # "none" /\ RetHasAt(lastReturn))
    => InsertConfessionClient(lastReturn) = "CONTENT_BLOCKED"

\* C4 (amended): every text containing '@' is rejected, with CONTENT_BLOCKED
\* when its trimmed length is at most 120 and with TEXT_TOO_LONG when longer.
C4_Amended ==
  (lastReturn.kind # "none" /\ RetHasAt(lastReturn))
    => InsertConfessionClient(lastReturn) =
         IF RetTrimmedLen(lastReturn) <= 120 THEN "CONTENT_BLOCKED"
         ELSE "TEXT_TOO_LONG"

C4_Witness ==
  /\ lastReturn.kind = "error"
  /\ RetHasAt(lastReturn)
  /\ RetTrimmedLen(lastReturn) = 120
  /\ RetCooling(lastReturn)
  /\ InsertConfessionClient(lastReturn) = "CONTENT_BLOCKED"

\* C5: a text of trimmed length 121 or more is rejected with TEXT_TOO_LONG;
\* one of trimmed length exactly 120, without a blocked pattern and from an
\* actor not in cooldown, is accepted.
C5_LengthBoundary ==
  lastReturn.kind # "none" =>
    /\ RetTrimmedLen(lastReturn) >= 121
         => InsertConfessionClient(lastReturn) = "TEXT_TOO_LONG"
    /\ (RetTrimmedLen(lastReturn) = 120 /\ ~RetBlocked(lastReturn)
          /\ ~RetCooling(lastReturn))
         => /\ lastReturn.kind = "ok"
            /\ \E r \in lastReturn.rows : Len(r.text) = 120

C5_Witness ==
  /\ lastReturn.kind = "error"
  /\ RetTrimmedLen(lastReturn) = 121
  /\ InsertConfessionClient(lastReturn) = "TEXT_TOO_LONG"
  /\ \E r \in confessions : Len(r.text) = 120

\* C6: a rejected admission carries exactly one of the four tags and leaves
\* the confession store (hence every actor's cooldown) unchanged.
C6_RejectionFrame ==
  [][(lastReturn'.kind = "error" /\ lastReturn.kind = "none")
       => /\ Cardinality({t \in ErrorTags : Includes(lastReturn'.message, t)}) = 1
          /\ InsertConfessionClient(lastReturn') \in ErrorTags
          /\ confessions' = confessions
          /\ \A u \in Users : LastPost(confessions', u) = LastPost(confessions, u)]_vars

C6_Witness ==
  /\ lastReturn.kind = "error"
  /\ InsertConfessionClient(lastReturn) = "RATE_LIMIT"
  /\ confessions # {}

\* C7: every confession is created with expires_at = created_at + 24 hours,
\* is_hidden = false and created_at = the server's now() of the inserting
\* call, and expires_at = created_at + 24 hours holds of every stored row ever
\* after.
C7_ServerTimes ==
  /\ [](\A r \in confessions : r.expires_at = r.created_at + 86400)
  /\ [][\A r \in confessions' :
          r.id \notin {q.id : q \in confessions}
            => /\ r.is_hidden = FALSE
               /\ r.expires_at = r.created_at + 86400
               /\ \E c \in Conns : /\ calls[c].pc = "insert"
                                   /\ calls'[c].pc = "idle"
                                   /\ r.created_at = calls[c].txnow]_vars

C7_Witness ==
  \E r \in confessions :
    /\ r.created_at = 14
    /\ r.expires_at = 86414
    /\ now = 86415

\* C8: every stored confession has both coordinates or neither.
C8_BothOrNeither ==
  \A r \in confessions : (r.lat = NULL) <=> (r.lng = NULL)

\* ============================================================= feed claims
\* the rows of a page, newest first, no two with the same (created_at, id)
StrictlyDescending(rows) ==
  \A k \in 1..(Len(rows) - 1) :
    \/ rows[k].created_at > rows[k + 1].created_at
    \/ /\ rows[k].created_at = rows[k + 1].created_at
       /\ rows[k].id > rows[k + 1].id

\* a stored row that readers may see now
Readable(c) == now < c.expires_at /\ ~c.is_hidden

\* every row of a page is a stored row that readers may see
AllReadable(rows) ==
  \A k \in 1..Len(rows) :
    \E c \in confessions : c.id = rows[k].id /\ Readable(c)

\* the reader went through the world feed page by page, by the RPC with any
\* page size or by fetchFeed with its default page size, and came to the end
WorldPagerDone ==
  /\ pager.pc = "done"
  /\ \/ pager.via = "rpc" /\ pager.params.p_mode = "world"
     \/ /\ pager.via = "fetchFeed"
        /\ pager.params.mode = "world"
        /\ pager.params.limit = NULL

\* C9: no feed call in any mode returns a confession that has expired or is
\* hidden, swept or not; and a reader who pages through the world feed to
\* its end has seen every confession that is neither, with or without
\* coordinates.
C9_VisibleIffLiveAndShown ==
  /\ feedReturn.kind = "rows" => AllReadable(feedReturn.rows)
  /\ fetchReturn.kind = "result" => AllReadable(fetchReturn.confessions)
  /\ WorldPagerDone =>
       {pager.seen[k] : k \in 1..Len(pager.seen)}
         = {c.id : c \in {r \in confessions : Readable(r)}}

\* a reader finished paging through a table of more than 50 readable rows
\* that also holds a hidden row, an expired row not yet swept, and readable
\* rows without coordinates
C9_Witness ==
  /\ WorldPagerDone
  /\ pager.via = "rpc"
  /\ Len(pager.seen) > 50
  /\ \E c \in confessions : c.is_hidden /\ now < c.expires_at
  /\ \E c \in confessions : ~c.is_hidden /\ c.expires_at <= now
  /\ \E c \in confessions :
       /\ Readable(c)
       /\ c.lat = NULL
       /\ \E k \in 1..Len(pager.seen) : pager.seen[k] = c.id

\* the requested page size clamped to [10, 50], 30 when none is requested
EffectiveLimit(limit) ==
  IF limit = NULL THEN 30
  ELSE IF limit < 10 THEN 10
  ELSE IF limit > 50 THEN 50
  ELSE limit

\* the requested radius clamped to [100, 50000], 10000 when none is requested
EffectiveRadius(radius) ==
  IF radius = NULL THEN 10000
  ELSE IF radius < 100 THEN 100
  ELSE IF radius > 50000 THEN 50000
  ELSE radius

\* c carries a point at most radius metres from latitude p_lat on the
\* meridian of the model
Within(c, p_lat, radius) ==
  /\ c.lat # NULL
  /\ c.lng # NULL
  /\ (IF c.lat < p_lat THEN p_lat - c.lat ELSE c.lat - p_lat) * 111195
       <= radius * 10000

\* C10: every page get_confess_feed returns, and every page fetchFeed hands
\* on, is sorted strictly descending by (created_at, id) and holds at most
\* the requested page size clamped to [10, 50]; in near mode its rows lie
\* within the requested radius clamped to [100, 50000], and a first page
\* that is not full holds every readable row within that radius.
C10_PageOrderAndSize ==
  /\ feedReturn.kind = "rows" =>
       LET a == feedReturn.args
           rows == feedReturn.rows
       IN  /\ StrictlyDescending(rows)
           /\ Len(rows) <= EffectiveLimit(a.p_limit)
           /\ a.p_mode = "near" =>
                /\ \A k \in 1..Len(rows) :
                     Within(rows[k], a.p_lat, EffectiveRadius(a.p_radius_m))
                /\ (Len(rows) < EffectiveLimit(a.p_limit)
                      /\ a.p_cursor_created_at = NULL) =>
                     \A c \in confessions :
                       (Readable(c)
                          /\ Within(c, a.p_lat, EffectiveRadius(a.p_radius_m)))
                       => \E k \in 1..Len(rows) : rows[k].id = c.id
  /\ fetchReturn.kind = "result" =>
       /\ StrictlyDescending(fetchReturn.confessions)
       /\ Len(fetchReturn.confessions)
            <= EffectiveLimit(fetchReturn.params.limit)

\* a near call asking for 200 rows within 100 km got exactly 50, two of them
\* with the same created_at, while a readable row lies beyond 50 km
C10_Witness ==
  /\ feedReturn.kind = "rows"
  /\ feedReturn.args.p_mode = "near"
  /\ feedReturn.args.p_limit = 200
  /\ feedReturn.args.p_radius_m = 100000
  /\ Len(feedReturn.rows) = 50
  /\ \E k \in 1..49 :
       feedReturn.rows[k].created_at = feedReturn.rows[k + 1].created_at
  /\ \E c \in confessions :
       /\ Readable(c)
       /\ c.lat # NULL
       /\ c.lng # NULL
       /\ ~Within(c, feedReturn.args.p_lat, 50000)

\* ------------------------------------------------------------------- C11
\* key (created_at, id) a sorts strictly after key b in the feed's order
KeyBelow(a, b) ==
  \/ a.created_at < b.created_at
  \/ a.created_at = b.created_at /\ a.id < b.id

\* a PageCursor: both parts present
Supplied(cur) == cur.created_at # NULL /\ cur.id # NULL

\* C11: when a cursor is supplied, every row of the page get_confess_feed
\* returns, and of the page fetchFeed hands on, is strictly below the cursor
\* under (created_at, id); the next cursor fetchFeed derives from a non-empty
\* page is strictly below the supplied one; and along a chain of pages every
\* new cursor is strictly below the one before.
C11_CursorMonotonic ==
  /\ [](/\ feedReturn.kind = "rows" =>
            LET cur == [created_at |-> feedReturn.args.p_cursor_created_at,
                        id |-> feedReturn.args.p_cursor_id]
            IN  Supplied(cur) =>
                  \A k \in 1..Len(feedReturn.rows) :
                    KeyBelow(feedReturn.rows[k], cur)
        /\ (fetchReturn.kind = "result" /\ Supplied(fetchReturn.params.cursor)) =>
             /\ \A k \in 1..Len(fetchReturn.confessions) :
                  KeyBelow(fetchReturn.confessions[k], fetchReturn.params.cursor)
             /\ Len(fetchReturn.confessions) > 0 =>
                  /\ Supplied(fetchReturn.nextCursor)
                  /\ KeyBelow(fetchReturn.nextCursor, fetchReturn.params.cursor))
  /\ [][(pager.pc = "paging" /\ pager'.pc # "idle"
           /\ Supplied(pager.cursor) /\ pager'.cursor # pager.cursor)
          => /\ Supplied(pager'.cursor)
             /\ KeyBelow(pager'.cursor, pager.cursor)]_vars

\* fetchFeed was given a cursor and handed on a page whose first row was
\* created at the cursor's instant, with a table that also holds a readable
\* row of that instant above the cursor
C11_Witness ==
  /\ fetchReturn.kind = "result"
  /\ Supplied(fetchReturn.params.cursor)
  /\ Len(fetchReturn.confessions) > 1
  /\ fetchReturn.confessions[1].created_at = fetchReturn.params.cursor.created_at
  /\ \E c \in confessions :
       /\ Readable(c)
       /\ c.created_at = fetchReturn.params.cursor.created_at
       /\ c.id > fetchReturn.params.cursor.id

\* ------------------------------------------------------------------- C12
\* the stored row with this id
RowOf(id) == CHOOSE c \in confessions : c.id = id

\* the rows a fetchFeed reader with these params is to see: readable, and in
\* near mode within the clamped radius of the point given
Eligible(params) ==
  {c \in confessions :
     /\ Readable(c)
     /\ params.mode = "near" =>
          Within(c, params.lat,
                 EffectiveRadius(IF params.radiusM = NULL THEN 1000
                                 ELSE params.radiusM))}

\* C12: a reader who follows fetchFeed's cursors from no cursor until hasMore
\* is false has, for every page size, seen exactly the eligible rows: each
\* once, none missing, in (created_at DESC, id DESC) order.
C12_PagesCoverEligible ==
  (pager.pc = "done" /\ pager.via = "fetchFeed") =>
    /\ {pager.seen[k] : k \in 1..Len(pager.seen)}
         = {c.id : c \in Eligible(pager.params)}
    /\ Cardinality({pager.seen[k] : k \in 1..Len(pager.seen)}) = Len(pager.seen)
    /\ \A k \in 1..(Len(pager.seen) - 1) :
         KeyBelow(RowOf(pager.seen[k + 1]), RowOf(pager.seen[k]))

\* ------------------------------------------------------------------- C13
\* the eligible rows from the cursor of the call on
EligibleFrom(params) ==
  {c \in Eligible(params) :
     Supplied(params.cursor) => KeyBelow(c, params.cursor)}

\* the page size of a fetchFeed call, 30 when none is given
PageSize(params) == IF params.limit = NULL THEN 30 ELSE params.limit

\* C13: for every page size from 10 to 50, a fetchFeed call that reaches the
\* RPC asks it for one row more than the page size, reports hasMore exactly
\* when an eligible row lies beyond the page it hands on, hands on at most
\* the page size, and gives as nextCursor the key of the page's last row.
C13_HasMoreExact ==
  (/\ fetchReturn.kind = "result"
   /\ feedReturn.kind = "rows"
   /\ PageSize(fetchReturn.params) \in 10..50) =>
    LET params == fetchReturn.params
        page == fetchReturn.confessions
    IN  /\ feedReturn.args.p_limit = PageSize(params) + 1
        /\ fetchReturn.hasMore
             <=> Cardinality(EligibleFrom(params)) > Len(page)
        /\ Len(page) <= PageSize(params)
        /\ Len(page) > 0 =>
             /\ fetchReturn.nextCursor.created_at = page[Len(page)].created_at
             /\ fetchReturn.nextCursor.id = page[Len(page)].id

AllNear(rows, p_lat, radius) ==
  \A k \in 1..Len(rows) :
    /\ rows[k].lat # NULL
    /\ rows[k].lng # NULL
    /\ \E c \in confessions :
         /\ c.id = rows[k].id
         /\ Within(c, p_lat, EffectiveRadius(radius))

\* C15: in near mode the feed returns only confessions that carry both
\* coordinates and lie at most the clamped radius from the query point; a
\* confession with a null coordinate is never returned, whatever the radius.
C15_NearOnlyLocated ==
  /\ (feedReturn.kind = "rows" /\ feedReturn.args.p_mode = "near") =>
       AllNear(feedReturn.rows, feedReturn.args.p_lat,
               feedReturn.args.p_radius_m)
  /\ (fetchReturn.kind = "result" /\ fetchReturn.params.mode = "near"
        /\ feedReturn.kind = "rows") =>
       AllNear(fetchReturn.confessions, feedReturn.args.p_lat,
               feedReturn.args.p_radius_m)

\* a near call with the widest radius returned rows, while the table holds
\* readable rows with no coordinates, with a latitude only, and beyond 50 km
C15_Witness ==
  /\ feedReturn.kind = "rows"
  /\ feedReturn.args.p_mode = "near"
  /\ feedReturn.args.p_radius_m = 100000
  /\ Len(feedReturn.rows) > 0
  /\ \E c \in confessions : Readable(c) /\ c.lat = NULL /\ c.lng = NULL
  /\ \E c \in confessions : Readable(c) /\ c.lat = 0 /\ c.lng = NULL
  /\ \E c \in confessions :
       Readable(c) /\ c.lat # NULL /\ c.lng # NULL /\ ~Within(c, 0, 50000)

\* ------------------------------------------------------------------- C16
\* C16: a feed query in near mode without lat or without lng ends in an
\* error the caller sees, from get_confess_feed and from fetchFeed alike;
\* it never ends as a query that succeeded, with rows or with none.
C16_NearNeedsPoint ==
  /\ (/\ feedReturn.kind # "none"
      /\ feedReturn.args.p_mode = "near"
      /\ (feedReturn.args.p_lat = NULL \/ feedReturn.args.p_lng = NULL)) =>
       feedReturn.kind = "error"
  /\ (/\ fetchReturn.kind # "none"
      /\ fetchReturn.params.mode = "near"
      /\ (fetchReturn.params.lat = NULL \/ fetchReturn.params.lng = NULL)) =>
       fetchReturn.kind = "error"

\* ------------------------------------------------------------------- C17
\* the readable rows at most radius metres from the point, from cur on
NearFrom(p_lat, radius, cur) ==
  {c \in confessions :
     /\ Readable(c)
     /\ Within(c, p_lat, radius)
     /\ Supplied(cur) => KeyBelow(c, cur)}

\* the page holds exactly the first size rows of S, or all of S if fewer
FirstOf(page, S, size) ==
  /\ \A k \in 1..Len(page) : \E c \in S : c.id = page[k].id
  /\ Len(page) = Min({size, Cardinality(S)})

\* C17: a near request that names no radius is evaluated with a radius of
\* 10000 metres, and a request that names no page size gets pages of 30,
\* whether made to get_confess_feed or through fetchFeed.
C17_Defaults ==
  /\ (/\ feedReturn.kind = "rows"
      /\ fetchReturn.kind = "none"
      /\ feedReturn.args.p_mode = "near"
      /\ feedReturn.args.p_radius_m = NULL
      /\ feedReturn.args.p_limit = NULL) =>
       FirstOf(feedReturn.rows,
               NearFrom(feedReturn.args.p_lat, 10000,
                        [created_at |-> feedReturn.args.p_cursor_created_at,
                         id |-> feedReturn.args.p_cursor_id]),
               30)
  /\ (/\ feedReturn.kind = "rows"
      /\ fetchReturn.kind = "none"
      /\ feedReturn.args.p_mode = "world"
      /\ feedReturn.args.p_limit = NULL
      /\ feedReturn.args.p_cursor_created_at = NULL) =>
       Len(feedReturn.rows)
         = Min({30, Cardinality({c \in confessions : Readable(c)})})
  /\ (/\ fetchReturn.kind = "result"
      /\ fetchReturn.params.supabase
      /\ fetchReturn.params.mode = "near"
      /\ fetchReturn.params.lat # NULL
      /\ fetchReturn.params.lng # NULL
      /\ fetchReturn.params.radiusM = NULL
      /\ fetchReturn.params.limit = NULL) =>
       FirstOf(fetchReturn.confessions,
               NearFrom(fetchReturn.params.lat, 10000,
                        fetchReturn.params.cursor),
               30)
  /\ (/\ fetchReturn.kind = "result"
      /\ fetchReturn.params.supabase
      /\ fetchReturn.params.mode = "world"
      /\ fetchReturn.params.limit = NULL
      /\ ~Supplied(fetchReturn.params.cursor)) =>
       Len(fetchReturn.confessions)
         = Min({30, Cardinality({c \in confessions : Readable(c)})})

\* ------------------------------------------------------------------- C18
\* C18: feed queries are read-only: every step in which a get_confess_feed
\* or fetchFeed call returns, in any mode, alone, as a page of a pagination
\* or as a repeat, leaves the table of confessions as it was, also when
\* sweeps run between the calls.
C18_FeedReadOnly ==
  [][(\/ feedReturn' # feedReturn /\ feedReturn'.kind # "none"
      \/ fetchReturn' # fetchReturn /\ fetchReturn'.kind # "none"
      \/ repeatReturn' # repeatReturn /\ repeatReturn'.kind # "none")
       => confessions' = confessions]_vars

\* a reader has paged through the whole feed of the largest table and every
\* row is still stored, the expired ones a sweep would delete included
C18_Witness ==
  /\ pager.pc = "done"
  /\ Len(pager.seen) > 50
  /\ Cardinality(confessions) = FeedRows
  /\ \E c \in confessions : c.created_at < now - EXPIRY_S

\* ------------------------------------------------------------------- C19
\* the columns a client may be shown
SafeColumns == {"id", "text", "created_at", "expires_at", "lat", "lng"}

\* C19: nothing a client-callable operation returns contains user_id: the
\* rows insert_confession and the feed return carry exactly id, text,
\* created_at, expires_at, lat and lng, and no read open to clients returns
\* a row with its user_id.
C19_OwnerNeverExposed ==
  /\ lastReturn.kind = "ok" =>
       \A r \in lastReturn.rows : DOMAIN r = SafeColumns
  /\ feedReturn.kind = "rows" =>
       \A k \in 1..Len(feedReturn.rows) : DOMAIN feedReturn.rows[k] = SafeColumns
  /\ fetchReturn.kind = "result" =>
       \A k \in 1..Len(fetchReturn.confessions) :
         DOMAIN fetchReturn.confessions[k] = SafeColumns
  /\ selectReturn.kind = "rows" =>
       \A r \in selectReturn.rows : "user_id" \notin DOMAIN r

\* ========================================================== sweep claims
\* a confession with this id is stored
Stored(id) == \E r \in confessions : r.id = id

\* C20: provided time advances and the sweep job keeps running, every
\* stored confession is eventually deleted: none stays in the table forever.
C20_EventuallySwept ==
  \A id \in Ids : Stored(id) ~> ~Stored(id)

\* the second confession is stored and the first, stored before it, is gone
C20_Witness ==
  /\ Stored(2)
  /\ ~Stored(1)
  /\ \A r \in confessions : now < r.expires_at

\* ======================================================== session claims
Loaders == {"loadWorld", "loadPlace", "loadNearMe"}
\* the state startNewSession leaves, with an id no session had before
BrandNew(st, used) ==
  /\ st.sessionId > used
  /\ st.pageFetchCount = 0
  /\ ~st.adArmed
  /\ ~st.adShown

\* C21: a cold start always yields a brand-new session, whatever was there
\* before: a session id never used, pageFetchCount 0, adArmed and adShown
\* false.
C21_ColdStartFresh ==
  [][event'.type = "mount" =>
       /\ BrandNew(state', sessionsStarted)
       /\ state'.sessionId # state.sessionId]_vars

\* the App was loaded again, ten minutes or more after its first start
C21_Witness ==
  /\ event.type = "mount"
  /\ sessionsStarted > 1
  /\ clientNow >= BACKGROUND_THRESHOLD_MS
  /\ BrandNew(state, sessionsStarted - 1)

\* C22: while no ad was shown in the session, adArmed holds exactly when
\* pageFetchCount >= 4, and it turns true on the step that records the
\* fourth page fetch.
C22_ArmedOnFourth ==
  /\ [](Mounted /\ ~state.adShown =>
          (state.adArmed <=> state.pageFetchCount >= 4))
  /\ [][~state.adArmed /\ state'.adArmed =>
          /\ state.pageFetchCount = 3
          /\ state'.pageFetchCount = 4
          /\ state'.sessionId = state.sessionId]_vars

\* the fourth page fetch of a session has just been recorded
C22_Witness ==
  /\ event.type \in Loaders
  /\ state.pageFetchCount = 4
  /\ state.adArmed
  /\ ~state.adShown

\* C23: marking the ad shown sets adShown and clears adArmed, and from then
\* on, as long as the session lasts, no step (page fetches included) changes
\* pageFetchCount, adArmed or adShown.
C23_FrozenAfterAd ==
  /\ [][event'.type = "ad" => state'.adShown /\ ~state'.adArmed]_vars
  /\ [][state.adShown /\ state'.sessionId = state.sessionId =>
          /\ state'.pageFetchCount = state.pageFetchCount
          /\ state'.adArmed = state.adArmed
          /\ state'.adArmed = FALSE
          /\ state'.adShown]_vars

\* a load-more that returned rows, after the ad of the session was shown
C23_Witness ==
  /\ event.type \in Loaders
  /\ ~event.reset
  /\ event.rows > 0
  /\ state.adShown
  /\ state.pageFetchCount >= AD_TRIGGER_THRESHOLD

\* C24: within one session the ad goes from armed to shown at most once:
\* once adShown holds, no later step of the session shows the ad again or
\* makes isAdArmed() true, and adShown stays.
C24_AdAtMostOnce ==
  [][state.adShown /\ state'.sessionId = state.sessionId =>
       /\ event'.type # "ad"
       /\ ~isAdArmed(state')
       /\ state'.adShown]_vars

\* the app came back to the foreground in a session whose ad had been shown
C24_Witness ==
  /\ event.type = "foreground"
  /\ event.elapsed # NULL
  /\ state.adShown
  /\ adInserted

\* C25: on foregrounding, a stored background timestamp that is ten minutes
\* old or older (exactly ten minutes included) starts a brand-new session;
\* a younger one, or none, leaves sessionId, pageFetchCount, adArmed and
\* adShown as they were.
C25_ForegroundThreshold ==
  [][event'.type = "foreground" =>
       IF lastBackgroundAt # NULL /\ clientNow - lastBackgroundAt >= 600000
         THEN BrandNew(state', sessionsStarted)
         ELSE state' = state]_vars

\* foregrounding exactly ten minutes after backgrounding started a session
C25_Witness ==
  /\ event.type = "foreground"
  /\ event.elapsed = 600000
  /\ state.sessionId = sessionsStarted
  /\ sessionsStarted > 1
  /\ state.pageFetchCount = 0

\* the same one millisecond earlier: the session, with fetches counted, stays
C25_WitnessKept ==
  /\ event.type = "foreground"
  /\ event.elapsed = 600000 - 1
  /\ state.pageFetchCount > 0

\* C26: in a session whose ad was not shown, every load-more fetch adds
\* exactly one to pageFetchCount whatever the fetch returns, and no initial
\* (reset) load changes it.
C26_EveryLoadMoreCounts ==
  [][event'.type \in Loaders /\ ~state.adShown =>
       state'.pageFetchCount =
         state.pageFetchCount + (IF event'.reset THEN 0 ELSE 1)]_vars

\* ========================================================== place claims
\* the calls whose response resolve_place has built
Responded == {c \in Conns : placeCalls[c].pc = "respond"}
\* the geocoder answered, with an array that holds no result
ZeroResults(ans) == ans.kind = "array" /\ Len(ans.data) = 0
\* trimmed and lowercased, character by character
Normalized(q) ==
  LET keep == {i \in 1..Len(q) : q[i] \notin {" ", "\t", "\n"}}
      t == IF keep = {} THEN <<>> ELSE SubSeq(q, Min(keep), Max(keep))
  IN [i \in 1..Len(t) |->
        IF t[i] \in UpperCh THEN LowerSeq[CHOOSE k \in 1..26 : UpperSeq[k] = t[i]]
                            ELSE t[i]]

\* C27: every successful place resolution carries the source tag 'cache' or
\* 'provider': 'cache' exactly when the normalized query was found in the
\* cache and the geocoder was not called, 'provider' exactly when the
\* coordinates came from the geocoder.
C27_SourceTag ==
  \A c \in Responded :
    LET call == placeCalls[c] IN
    call.response.ok = "true" =>
      /\ call.response.source \in {"cache", "provider"}
      /\ call.response.source = "cache" <=> (call.hit /\ call.answer = NoAnswer)
      /\ call.response.source = "provider" <=> call.answer # NoAnswer

\* C28: a lookup ends as NOT_FOUND only when the geocoder answered
\* successfully with zero results, and such an answer, once delivered, always
\* ends as NOT_FOUND; a transport failure, a non-success status, a malformed
\* body or a server error is never NOT_FOUND.
C28_NotFoundIffZeroResults ==
  /\ \A c \in Responded :
       placeCalls[c].response.reason = "NOT_FOUND"
         <=> ZeroResults(placeCalls[c].answer)
  /\ placeReturn.kind = "result" =>
       /\ placeReturn.result.reason = "NOT_FOUND" =>
            ZeroResults(placeReturn.answer) /\ placeReturn.net = "ok"
       /\ ZeroResults(placeReturn.answer) /\ placeReturn.net = "ok" =>
            placeReturn.result.reason = "NOT_FOUND"

\* C29: under any interleaving of resolve_place calls the cache holds at
\* most one entry per normalized (trimmed, lowercased) query; an entry is
\* created only by an insert that a call sent after a successful geocoder
\* lookup with valid coordinates; an entry, once there, is never changed
\* or removed.
C29_OneEntryPerQuery ==
  /\ [](\A r1, r2 \in place_cache :
          Normalized(r1.q) = Normalized(r2.q) => r1 = r2)
  /\ [](\A r \in place_cache \cup placeWrites :
          /\ r.q_lower = Normalized(r.q)
          /\ r.lat \notin {NaN, NULL}
          /\ r.lng \notin {NaN, NULL})
  /\ [][/\ place_cache \subseteq place_cache'
        /\ place_cache' \ place_cache \subseteq placeWrites
        /\ \A w \in placeWrites' \ placeWrites :
             \E c \in Conns :
               /\ placeCalls[c].pc = "provider"
               /\ placeCalls'[c].pc = "respond"
               /\ ProviderSucceeded(placeCalls'[c].answer)
               /\ w.q_lower = Normalized(placeCalls[c].q)]_vars

\* two calls for two spellings of one place both missed the cache, both got
\* a result and both sent their insert; both inserts ran; one entry exists
C29_Witness ==
  /\ Responded = Conns
  /\ \A c \in Conns : ~placeCalls[c].had /\ ProviderSucceeded(placeCalls[c].answer)
  /\ placeCalls[1].q # placeCalls[2].q
  /\ placeWrites = {}
  /\ Cardinality(place_cache) = 1

\* C30: when the geocoder lookup succeeds, resolve_place answers ok:true
\* with the geocoder's coordinates whether the cache insert succeeds, fails
\* or meets a duplicate: a built response never changes, the client gets the
\* coordinates, and an insert is sent once per lookup, never again.
C30_WriteNeverAffectsResponse ==
  /\ [](\A c \in Responded :
          LET call == placeCalls[c] IN
          ProviderSucceeded(call.answer) =>
            /\ call.response.status = 200
            /\ call.response.ok = "true"
            /\ call.response.lat = parseFloat(call.answer.data[1].lat)
            /\ call.response.lng = parseFloat(call.answer.data[1].lon))
  /\ [](placeReturn.kind = "result" /\ placeReturn.net = "ok"
          /\ ProviderSucceeded(placeReturn.answer) =>
            /\ placeReturn.result.ok
            /\ placeReturn.result.lat = parseFloat(placeReturn.answer.data[1].lat)
            /\ placeReturn.result.lng = parseFloat(placeReturn.answer.data[1].lon))
  /\ [][/\ \A c \in Responded :
             placeCalls'[c].pc = "respond" => placeCalls'[c] = placeCalls[c]
        /\ \A w \in placeWrites' \ placeWrites :
             \E c \in Conns : /\ placeCalls[c].pc = "provider"
                              /\ placeCalls[c].call = w.id
        /\ Cardinality(placeWrites' \ placeWrites) <= 1]_vars

\* the client got the geocoder's coordinates although the insert of that
\* call did not make it into the cache, and nothing is left to be written
C30_Witness ==
  /\ placeReturn.kind = "result"
  /\ placeReturn.result.ok
  /\ ProviderSucceeded(placeReturn.answer)
  /\ placeWrites = {}
  /\ \A r \in place_cache : r.id # placeReturn.call

\* ============================================================ feed claims
\* the initial near-me loads at an await
Expanding == {i \in Threads : Awaiting(i) /\ loads[i].kind = "near" /\ loads[i].reset}

\* C31: an initial near-me load tries the radii in increasing order starting
\* at 100 m (its k-th request asks for the k-th radius), stops at the first
\* radius whose request returns at least MIN_RESULTS confessions, and issues
\* no more than MAX_ATTEMPTS feed requests in total before it settles.
C31_ExpansionBounded ==
  /\ [](\A i \in Expanding :
          /\ loads[i].sent <= MAX_ATTEMPTS
          /\ loads[i].radiusM = NEAR_ME_RADII[loads[i].sent])
  /\ [][\A i \in Expanding :
          /\ loads'[i] # loads[i]
          /\ lastFetch' # NoFetchSeen
          /\ Len(lastFetch'.result.confessions) >= MIN_RESULTS
          => /\ loads'[i] = IdleLoad
             /\ placeFeed'.confessions = lastFetch'.result.confessions]_vars

\* the rows of a feed that a query returned (a confession just posted is
\* put in front of them)
Fetched(feed) == SelectSeq(feed.confessions, LAMBDA r : r.from.mode # "post")
\* loader i starts in this step as a near-me load-more
NearMeMoreStarts(i) ==
  /\ loads[i].pc = "idle" /\ loads'[i].pc = "await"
  /\ loads'[i].kind = "near" /\ ~loads'[i].reset

\* C32: every near-me load-more asks with exactly the radius of the request
\* that produced the first page the place feed displays when Load more is
\* pressed, whichever way the auto-expansion ended.
C32_LoadMoreKeepsRadius ==
  [][\A i \in Threads : NearMeMoreStarts(i) =>
       /\ Len(Fetched(placeFeed)) > 0
       /\ loads'[i].radiusM = Fetched(placeFeed)[1].from.radiusM]_vars

\* the ways a fetchFeed call fails that the App's calls meet: the RPC reports
\* an error, or the call throws
Failures == {"rpcError", "throws"}
\* what fetchFeed returns for a query that succeeded and found no row
ZeroRowSuccess(params) == FeedResult(params, [kind |-> "rows", rows |-> <<>>])

\* C33: every failure of the feed operation (an RPC error, a thrown
\* exception, a missing configuration, near mode without a point) reaches the
\* caller as something it can tell from a successful query that found no
\* rows: the result of a failed call differs from the result of a zero-row
\* success.
C33_FailureIsTold ==
  (/\ lastFetch # NoFetchSeen
   /\ \/ lastFetch.kind \in Failures
      \/ ~lastFetch.params.supabase
      \/ lastFetch.params.mode = "near" /\ lastFetch.params.lat = NULL)
  => lastFetch.result # ZeroRowSuccess(lastFetch.params)

\* loader i, a load-more, ends in this step
LoadMoreEnds(i) == Awaiting(i) /\ ~loads[i].reset /\ loads'[i] = IdleLoad

\* C34: when the fetch of a load-more fails, the feed keeps the rows it had
\* accumulated, its cursor and its hasMore as they were before the attempt.
C34_FailedLoadMoreKeepsFeed ==
  [][\A i \in Threads :
       LoadMoreEnds(i) /\ lastFetch'.kind \in Failures =>
         IF loads[i].kind = "world"
         THEN /\ worldFeed'.confessions = worldFeed.confessions
              /\ worldFeed'.cursor = worldFeed.cursor
              /\ worldFeed'.hasMore = worldFeed.hasMore
         ELSE /\ placeFeed'.confessions = placeFeed.confessions
              /\ placeFeed'.cursor = placeFeed.cursor
              /\ placeFeed'.hasMore = placeFeed.hasMore]_vars

\* loader i starts in this step as a load-more
LoadMoreStarts(i) ==
  loads[i].pc = "idle" /\ loads'[i].pc = "await" /\ ~loads'[i].reset
\* the last row of a feed that a query returned: the row its cursor was
\* derived from
LastFetched(feed) == Fetched(feed)[Len(Fetched(feed))]

\* C35: every load-more passes a cursor that a request with the same mode,
\* centre and radius produced; a near-me cursor never pages a Somewhere query
\* and a Somewhere cursor never pages a near-me query.
C35_CursorFromSameQuery ==
  [][\A i \in Threads : LoadMoreStarts(i) =>
       LET L == loads'[i]
           feed == IF L.kind = "world" THEN worldFeed ELSE placeFeed
       IN  /\ Len(Fetched(feed)) > 0
           /\ L.cursor = [created_at |-> LastFetched(feed).created_at,
                          id |-> LastFetched(feed).id]
           /\ LastFetched(feed).from =
                [mode |-> IF L.kind = "world" THEN "world" ELSE "near",
                 lat |-> L.lat, lng |-> L.lng, radiusM |-> L.radiusM]]_vars

\* loader i, which ran while a loader of the other kind was writing the
\* place feed, ends in this step and leaves no loader on the place feed
LastOfOverlapEnds(i) ==
  /\ OnPlaceFeed(i) /\ loads[i].overlap /\ loads'[i] = IdleLoad
  /\ \A j \in Threads : loads'[j].pc = "idle" \/ loads'[j].kind = "world"

\* C36: when a Somewhere place load and a near-me load were in flight
\* together, then once both have completed, in either order, the place feed
\* holds only results of the active tab's query: around the device location
\* under Near me, around the chosen place under Somewhere.
C36_FeedMatchesTab ==
  [][\A i \in Threads : LastOfOverlapEnds(i) =>
       LET rows == Fetched(placeFeed')
           centre == IF tab' = "near" THEN deviceLocation' ELSE somewherePlace'
       IN  tab' # "world" =>
             \A k \in 1..Len(rows) :
               /\ rows[k].from.lat = centre.lat
               /\ rows[k].from.lng = centre.lng
               /\ (rows[k].from.radiusM = PLACE_RADIUS_M) = (tab' = "somewhere")]_vars

\* ======================================================== location claims
\* C37: the device location changes only in the success callback of a
\* geolocation request, which stores the position the request reported; no
\* Somewhere action (resolving, picking or caching a place) changes it; and
\* the coordinates handleSubmit sends with a confession are those of the
\* device location, absent when there is none.
C37_DeviceLocationOnly ==
  [][/\ deviceLocation' # deviceLocation =>
          /\ geoPending' = geoPending - 1
          /\ geoStatus' = "granted"
          /\ deviceLocation' \in DeviceFixes
     /\ (\/ somewherePlace' # somewherePlace
         \/ resolving' # resolving
         \/ cachedPlaces' # cachedPlaces) => deviceLocation' = deviceLocation
     /\ lastSubmit.kind # "sent" /\ lastSubmit'.kind = "sent" =>
          /\ lastSubmit'.lat = deviceLocation.lat
          /\ lastSubmit'.lng = deviceLocation.lng]_vars

\* a confession is sent from the Somewhere tab with a place chosen and the
\* device located: it carries the device's coordinates
C37_Witness ==
  /\ lastSubmit.kind = "sent"
  /\ lastSubmit.tab = "somewhere"
  /\ somewherePlace # NoPoint
  /\ deviceLocation \in DeviceFixes
  /\ lastSubmit.lat = deviceLocation.lat
  /\ lastSubmit.lat # somewherePlace.lat

\* a confession is sent from the Somewhere tab before the device was ever
\* located: it carries no coordinates
C37_WitnessAbsent ==
  /\ lastSubmit.kind = "sent"
  /\ lastSubmit.tab = "somewhere"
  /\ somewherePlace # NoPoint
  /\ geoStatus = "idle"
  /\ lastSubmit.lat = NULL /\ lastSubmit.lng = NULL

\* ================================================= actor and sweep claims
\* C38: a submission without actor identity is never rejected with
\* RATE_LIMIT, and a RATE_LIMIT rejection of an actor always rests on a
\* confession of that same actor created less than 15 seconds ago, never on
\* another actor's confessions.
C38_RateLimitOwnRowsOnly ==
  (lastReturn.kind = "error" /\ InsertConfessionClient(lastReturn) = "RATE_LIMIT")
    => /\ lastReturn.v_user_id # NullUser
       /\ \E r \in confessions :
            /\ r.user_id = lastReturn.v_user_id
            /\ now - r.created_at < 15

\* two confessions without owner were admitted at the same instant, the
\* second just now
C38_Witness ==
  /\ lastReturn.kind = "ok"
  /\ lastReturn.v_user_id = NullUser
  /\ \E r1 \in confessions, r2 \in confessions :
       /\ r1.id # r2.id
       /\ r1.user_id = NullUser
       /\ r2.user_id = NullUser
       /\ r1.created_at = r2.created_at

\* one actor's confession was admitted while another actor's confession was
\* less than 15 seconds old
C38_WitnessOtherActor ==
  /\ lastReturn.kind = "ok"
  /\ \E r1 \in confessions, r2 \in confessions :
       /\ r1.user_id = "A"
       /\ r2.user_id = "B"
       /\ r2.created_at - r1.created_at < 15
       /\ r1.created_at - r2.created_at < 15

\* C39: every row a sweep run removes (cron job or cleanup function) has
\* expires_at <= now when it is removed: no sweep deletes a confession that
\* is still visible.
C39_SweepOnlyExpired ==
  [][\A r \in confessions \ confessions' : r.expires_at <= now]_vars

\* the first confession was swept after a later one was stored; the later
\* one has not expired and is still there
C39_Witness ==
  /\ ~Stored(1)
  /\ \E r \in confessions :
       /\ r.id = 2
       /\ r.expires_at > now
  /\ now > EXPIRY_S
  /\ lastReturn = NoReturn

\* C40: in every session state adArmed and adShown are never both true, and
\* adArmed implies pageFetchCount >= 4.
C40_ArmedXorShown ==
  /\ ~(state.adArmed /\ state.adShown)
  /\ state.adArmed => state.pageFetchCount >= 4

\* the ad of a session with four counted fetches has just been shown
C40_Witness ==
  /\ event.type = "ad"
  /\ state.adShown
  /\ ~state.adArmed
  /\ state.pageFetchCount >= 4
====
